---- MODULE Spec2Model ----
(***************************************************************************)
(* Model of the extraction bot in main_bot.py: the deferred feedback       *)
(* finalization (pending_feedback_tasks, schedule_feedback_timeout,        *)
(* finalize_yandex_entry, handle_feedback), the structuring ladder         *)
(* (run_gemini_with_fallback, run_gemini_with_retry), the page search of   *)
(* handle_document with wait_for_gemini_file_active, and the archive of a  *)
(* run (save_to_yandex_initial, finalize_yandex_entry and their failures). *)
(***************************************************************************)
EXTENDS Integers, Sequences, FiniteSets, TLC

(* ------------------------------ bounds --------------------------------- *)
MaxUsers == 1
MaxRuns == 2

Users == 1..MaxUsers
Paths == 1..MaxRuns          \* archive base_path of the k-th pipeline run
None == 0                    \* Python None

MaxCalls == 3                \* model calls recorded in the prompt machine
Missing == "MISSING"         \* a prompt file that does not exist
PromptFiles == {"find_and_validate.txt", "extract_and_correct.txt"}
PromptTexts == {"", "text"}
CallSites == {"handle_document", "handle_file_url", "strategy1"}
PromptOf == [s \in CallSites |->
    IF s = "strategy1" THEN "extract_and_correct.txt" ELSE "find_and_validate.txt"]

MaxDocPages == 2             \* largest page count of a document

MaxFinalizers == 3           \* finalize calls of one day that may overlap

MaxOperations == 3           \* storage operations of one run of the storage machine

Terminal == {"good", "bad", "timeout"}

VARIABLES
    pending_feedback_tasks,  \* dict user_id -> [base_path, cancel]
    meta,                    \* path -> feedback_status stored in meta.json
    timers,                  \* timeout_handler threads, in start order
    conv,                    \* ConversationHandler state per user
    user_data,               \* context.user_data["processed_files"]["base_path"]
    handler,                 \* the update handler the event loop is running
    nextPath,                \* number of archive paths created so far
    lastWrite,               \* history: status of the last completed finalize write per path
    superseded,              \* history: paths whose task was replaced while asleep
    fbFirst                  \* history: paths finalized by feedback before own timer woke

fvars == <<pending_feedback_tasks, meta, timers, conv, user_data, handler,
           nextPath, lastWrite, superseded, fbFirst>>

VARIABLES
    lpc,                     \* position inside run_gemini_with_fallback
    model_bound,             \* the local `model` has been assigned (line 355)
    retries,                 \* run_gemini_with_retry local
    last_exception,          \* run_gemini_with_retry local
    attemptLog,              \* history: one entry per generate_content_async call
    retry_raised,            \* history: what each strategy's retry call raised
    strategy_outcome,        \* history: outcome of each strategy's try block
    ladder_result,           \* value returned / exception raised to the caller
    notifier_failed,         \* history: a chat.send_message call raised
    notifications            \* history: the chat.send_message calls made, in order

lvars == <<lpc, model_bound, retries, last_exception, attemptLog, retry_raised,
           strategy_outcome, ladder_result, notifier_failed, notifications>>

VARIABLES
    ppc,                     \* position inside handle_document / handle_file_url
    wpc,                     \* position inside wait_for_gemini_file_active
    elapsed,                 \* time.time() - start_ts, in poll intervals
    polls,                   \* history: number of genai.get_file calls that returned
    seen,                    \* history: the state the last of them saw
    seenAt,                  \* history: the time since start_ts when it returned
    response,                \* what the page search call returned
    invoked,                 \* history: the page search model call was made
    uploaded_file,           \* history: the handle of genai.upload_file: none, uploaded, deleted
    delete_failed,           \* history: genai.delete_file raised
    found_page_number,       \* context.user_data["found_page_number"]
    reply,                   \* the last message the handler sent
    locate_return            \* conversation state the handler returned

pvars == <<uploaded_file, ppc, wpc, elapsed, polls, seen, seenAt, response, invoked, delete_failed,
           found_page_number, reply, locate_return>>

VARIABLES
    apc,                     \* position of the run: archive, reports, feedback button
    client,                  \* yandex_storage.client is set
    save,                    \* history: what save_to_yandex_initial tried and returned
    base_path,               \* processed_files["base_path"] of the session
    atimer,                  \* the timeout_handler thread of the run
    messages,                \* history: what the user was shown, in order
    fin,                     \* history: the last finalize_yandex_entry call
    parquet                  \* rows of dataset/<today>.parquet, << >> when absent

avars == <<apc, client, save, base_path, atimer, messages, fin, parquet>>

VARIABLES
    dpc,                     \* position of the degraded strategy
    html_content,            \* the serialized table text, a sequence of characters
    fallback_numbers,        \* history: the numeric tokens found
    fallback_mass            \* the mass of the single element, in units of 1/Scale

dvars == <<dpc, html_content, fallback_numbers, fallback_mass>>

VARIABLES
    spc,                     \* position of the code-fence run
    fenced,                  \* the text given to _strip_code_fences
    stripped_once,           \* its result
    stripped_twice           \* the result of a second call on that result

svars == <<spc, fenced, stripped_once, stripped_twice>>

VARIABLES
    jpc,                     \* position of the parse_gemini_json run
    raw,                     \* the text of the model's response, a sequence of tokens
    wrapped,                 \* history: the JSON object the text was built around
    relaxed,                 \* history: what _relaxed_json_parse gave
    dumps,                   \* the raw texts written to the files of TEMP_DIR
    parse_return             \* what parse_gemini_json returned or raised

jvars == <<jpc, raw, wrapped, relaxed, dumps, parse_return>>

VARIABLES
    tpc,                     \* position of the table serialization
    tables,                  \* result.tables, the tables the OCR service returned
    full_html_content        \* the text given to the structuring ladder, a sequence of lines

tvars == <<tpc, tables, full_html_content>>

VARIABLES
    conversation,            \* state of the ConversationHandler for the user
    session_data,            \* context.user_data
    xpc,                     \* position inside process_specification
    proc_page_number,        \* page_number of process_specification, a set with one number or none
    stages,                  \* history: what the current process_specification run did, in order
    last_end                 \* history: the last return of ConversationHandler.END

cvars == <<conversation, session_data, xpc, proc_page_number, stages, last_end>>

VARIABLES
    prompt_files,            \* the prompts directory: file name -> text, or Missing
    qpc,                     \* position inside the handler or strategy that reads a prompt
    prompt,                  \* the local prompt of the running call site
    model_calls              \* history: the generate_content_async calls made, [site, prompt]

qvars == <<prompt_files, qpc, prompt, model_calls>>

VARIABLES
    rpc,                     \* position of the user's document between intake and archive
    num_pages,               \* len(pdf_document) of the current document
    page_data,               \* user_data: manual_page_number and found_page_number
    raster_page,             \* page_number of process_specification
    rasterizations,          \* history: the load_page calls made for an image
    documents                \* number of documents received so far

rvars == <<rpc, num_pages, page_data, raster_page, rasterizations, documents>>

VARIABLES
    zpc,                     \* position of each finalize call inside create_parquet_entry_yandex
    combined_df,             \* the local combined_df of each call
    partition                \* dataset/<today>.parquet: whether it exists, and its rows

zvars == <<zpc, combined_df, partition>>

VARIABLES
    epc,                     \* position of the comparison of the two intake paths
    answer,                  \* the text of the page location response
    by_document,             \* next state and found page of handle_document
    by_url                   \* next state and found page of handle_file_url

evars == <<epc, answer, by_document, by_url>>

VARIABLES
    storage_client,          \* self.client is not None
    bucket,                  \* the keys stored in the bucket
    store_calls,             \* history: the boto calls made
    op_result,               \* history: the last operation, what it returned, whether it raised
    operations_done          \* number of operations called so far

yvars == <<storage_client, bucket, store_calls, op_result, operations_done>>

vars == <<fvars, lvars, pvars, avars, dvars, svars, jvars, tvars, cvars, qvars, rvars, zvars, evars, yvars>>

\* what the steps of one part leave alone
notFeedback == <<lvars, pvars, avars, dvars, svars, jvars, tvars, cvars, qvars, rvars, zvars, evars, yvars>>
notLadder == <<fvars, pvars, avars, dvars, svars, jvars, tvars, cvars, qvars, rvars, zvars, evars, yvars>>
notLocate == <<fvars, lvars, avars, dvars, svars, jvars, tvars, cvars, qvars, rvars, zvars, evars, yvars>>
notArchive == <<fvars, lvars, pvars, dvars, svars, jvars, tvars, cvars, qvars, rvars, zvars, evars, yvars>>
notDegraded == <<fvars, lvars, pvars, avars, svars, jvars, tvars, cvars, qvars, rvars, zvars, evars, yvars>>
notFences == <<fvars, lvars, pvars, avars, dvars, jvars, tvars, cvars, qvars, rvars, zvars, evars, yvars>>
notParse == <<fvars, lvars, pvars, avars, dvars, svars, tvars, cvars, qvars, rvars, zvars, evars, yvars>>
notTables == <<fvars, lvars, pvars, avars, dvars, svars, jvars, cvars, qvars, rvars, zvars, evars, yvars>>
notSession == <<fvars, lvars, pvars, avars, dvars, svars, jvars, tvars, qvars, rvars, zvars, evars, yvars>>
notPrompts == <<fvars, lvars, pvars, avars, dvars, svars, jvars, tvars, cvars, rvars, zvars, evars, yvars>>
notRaster == <<fvars, lvars, pvars, avars, dvars, svars, jvars, tvars, cvars, qvars, zvars, evars, yvars>>
notPartition == <<fvars, lvars, pvars, avars, dvars, svars, jvars, tvars, cvars, qvars, rvars, evars, yvars>>
notIntake == <<fvars, lvars, pvars, avars, dvars, svars, jvars, tvars, cvars, qvars, rvars, zvars, yvars>>
notStorage == <<fvars, lvars, pvars, avars, dvars, svars, jvars, tvars, cvars, qvars, rvars, zvars, evars>>

IdleHandler == [user |-> None, base_path |-> None, status |-> "none", pc |-> "idle"]

(* --------------------- schedule_feedback_timeout ----------------------- *)
\* lines 936-938: the cancel flag is set on the entry currently registered
CancelPrevious(tasks, u) ==
    IF u \in DOMAIN tasks THEN [tasks EXCEPT ![u].cancel = TRUE] ELSE tasks

\* lines 940-945: the entry of the user is replaced by a fresh dict
RegisterTask(tasks, u, p) ==
    [x \in (DOMAIN tasks) \cup {u} |->
        IF x = u THEN [base_path |-> p, cancel |-> FALSE] ELSE tasks[x]]

schedule_feedback_timeout(tasks, u, p) == RegisterTask(CancelPrevious(tasks, u), u, p)

\* dict.pop(user_id, None)
PopTask(tasks, u) == [x \in (DOMAIN tasks) \ {u} |-> tasks[x]]

\* line 926, second operand: not pending_feedback_tasks[user_id].get("cancel", False)
NotCancelled(tasks, u) == ~tasks[u].cancel

\* variant: a terminal status already stored is kept
FinalizeStatusKeepFirst(old, status) == IF old \in Terminal THEN old ELSE status

\* lines 973-977: the stored status becomes the status of the call
FinalizeStatus(old, status) == status

TimerAsleep(p) == \E i \in DOMAIN timers : timers[i].base_path = p /\ timers[i].pc = "sleeping"

(* -------------------- wait_for_gemini_file_active ---------------------- *)
TimeoutTicks == 2            \* timeout_seconds, counted in poll intervals
MaxPollDelay == 1            \* longest genai.get_file call, in poll intervals
PollTicks == 1               \* asyncio.sleep(poll_interval)

\* state names as character sequences
ACTIVE == <<"A", "C", "T", "I", "V", "E">>
FAILED == <<"F", "A", "I", "L", "E", "D">>
PROCESSING == <<"P", "R", "O", "C", "E", "S", "S", "I", "N", "G">>
UNSPECIFIED == <<"S", "T", "A", "T", "E", "_", "U", "N", "S", "P", "E", "C",
                 "I", "F", "I", "E", "D">>
active == <<"a", "c", "t", "i", "v", "e">>
failed == <<"f", "a", "i", "l", "e", "d">>

\* File.State, an integer enumeration with names (line 228)
EnumName == <<UNSPECIFIED, PROCESSING, ACTIVE, FAILED>>

\* what getattr(f, "state", None) can be: an enum member, a str, an int, None
FileStates ==
    {[kind |-> "enum", name |-> EnumName[k + 1], code |-> k] : k \in 0..3}
    \cup {[kind |-> "str", name |-> n, code |-> -1] :
             n \in {ACTIVE, active, FAILED, failed, PROCESSING}}
    \cup {[kind |-> "int", name |-> << >>, code |-> k] : k \in 0..3}
    \cup {[kind |-> "none", name |-> << >>, code |-> -1]}

Unpolled == [kind |-> "unpolled", name |-> << >>, code |-> -1]

\* str.upper() on the letters in use
UpperChar(c) ==
    CASE c = "a" -> "A" [] c = "c" -> "C" [] c = "t" -> "T" [] c = "i" -> "I"
      [] c = "v" -> "V" [] c = "e" -> "E" [] c = "f" -> "F" [] c = "l" -> "L"
      [] c = "d" -> "D" [] OTHER -> c

Upper(s) == [i \in DOMAIN s |-> UpperChar(s[i])]

\* the `in` operator on strings
Contains(t, s) ==
    \E i \in 0..(Len(s) - Len(t)) : SubSeq(s, i + 1, i + Len(t)) = t

\* lines 209-213: state.name of an enum member, the str itself, else None
state_name(st) == IF st.kind \in {"enum", "str"} THEN st.name ELSE << >>

\* isinstance(state, int): plain ints and members of the integer enumeration
IsInt(st) == st.kind \in {"int", "enum"}

\* variant: the numeric codes are not looked at
ClassifyByName(st) ==
    LET up == Upper(state_name(st)) IN
    IF state_name(st) # << >> /\ Contains(ACTIVE, up) THEN "active"
    ELSE IF state_name(st) # << >> /\ Contains(FAILED, up) THEN "failed"
    ELSE "pending"

\* lines 221-233: the name test first, then the numeric code
Classify(st) ==
    LET up == Upper(state_name(st)) IN
    IF state_name(st) # << >> /\ Contains(ACTIVE, up) THEN "active"
    ELSE IF state_name(st) # << >> /\ Contains(FAILED, up) THEN "failed"
    ELSE IF IsInt(st) /\ st.code = 2 THEN "active"
    ELSE IF IsInt(st) /\ st.code = 3 THEN "failed"
    ELSE "pending"

\* variant: the time budget is tested before the state
PollOutcomeTimeoutFirst(st, e) ==
    IF e > TimeoutTicks THEN "timeout"
    ELSE IF Classify(st) = "active" THEN "returned"
    ELSE IF Classify(st) = "failed" THEN "failed"
    ELSE "sleep"

\* lines 221-237: where one loop iteration ends, e the time since start_ts
PollOutcome(st, e) ==
    IF Classify(st) = "active" THEN "returned"
    ELSE IF Classify(st) = "failed" THEN "failed"
    ELSE IF e > TimeoutTicks THEN "timeout"
    ELSE "sleep"

(* ----------------------------- page location --------------------------- *)
MaxPage == 2                 \* largest page number a response reports

\* the value under the key "page" of the parsed response
PageValues ==
    {[type |-> "int", val |-> n] : n \in (-1)..MaxPage}
    \cup {[type |-> "float", val |-> 0], [type |-> "float", val |-> 25]}   \* 0.0, 2.5
    \cup {[type |-> "str", val |-> 1], [type |-> "null", val |-> 0],
          [type |-> "absent", val |-> 0]}

Unset == [type |-> "unset", val |-> 0]

NoResponse == [status |-> "none", page |-> Unset]

Responses ==
    {[status |-> "ok", page |-> v] : v \in PageValues}
    \cup {[status |-> "malformed", page |-> Unset]}

\* variant: a missing key counts as page 1
GetPageDefaultOne(result) ==
    IF result.page.type = "absent" THEN [type |-> "int", val |-> 1] ELSE result.page

\* result.get("page", 0)
GetPage(result) ==
    IF result.page.type = "absent" THEN [type |-> "int", val |-> 0] ELSE result.page

\* page_number == 0 in Python: true of 0 and 0.0, false of None and of a str
EqZero(v) == v.type \in {"int", "float"} /\ v.val = 0

\* page_number - 1 raises TypeError for None and for a str
CanSubtract(v) == v.type \in {"int", "float"}

(* ----------------------- save_to_yandex_initial ------------------------ *)
\* variant: the metadata record is written before the other artifacts
LaterArtifactsMetaFirst == <<"meta.json", "ocr_raw.html.gz", "corrected.json",
                             "find_prompt.txt", "extract_prompt.txt">>

\* lines 896-906: the metadata record save_to_yandex_initial writes
meta_data == [feedback_status |-> "pending"]

\* lines 878-908: the uploads after the page image, in order
LaterArtifacts == <<"ocr_raw.html.gz", "corrected.json", "find_prompt.txt",
                    "extract_prompt.txt", "meta.json">>

Artifacts == {"input.webp", "input.png"} \cup {LaterArtifacts[i] : i \in DOMAIN LaterArtifacts}

\* which uploads the store accepts: yandex_storage returns False for the others
WriteFaults == [Artifacts -> BOOLEAN]

\* lines 852-877: input.webp, and after a failure of it input.png
ImageAttempts(w) ==
    IF w["input.webp"]
    THEN <<[artifact |-> "input.webp", ok |-> TRUE]>>
    ELSE <<[artifact |-> "input.webp", ok |-> FALSE],
           [artifact |-> "input.png", ok |-> w["input.png"]]>>

\* lines 879-908: each upload in turn, the first refused one raises
RECURSIVE UploadAll(_, _)
UploadAll(w, arts) ==
    IF arts = << >> THEN << >>
    ELSE IF w[Head(arts)]
         THEN <<[artifact |-> Head(arts), ok |-> TRUE]>> \o UploadAll(w, Tail(arts))
         ELSE <<[artifact |-> Head(arts), ok |-> FALSE]>>

SaveAttempts(w) ==
    LET img == ImageAttempts(w) IN
    IF img[Len(img)].ok THEN img \o UploadAll(w, LaterArtifacts) ELSE img

\* line 847: the path of the run
NewPath == 1

\* lines 915-917: the handler around the whole body
SaveCaught(artifact) == TRUE

\* lines 839-917: no client gives None; a raise inside the body gives None
save_to_yandex_initial(cfg, w) ==
    IF ~cfg
    THEN [log |-> << >>, value |-> None, raised |-> FALSE]
    ELSE LET log == SaveAttempts(w)
             last == log[Len(log)] IN
         IF last.ok
         THEN [log |-> log, value |-> NewPath, raised |-> FALSE]
         ELSE [log |-> log, value |-> None, raised |-> ~SaveCaught(last.artifact)]

\* variant: a timeout is scheduled whatever was returned
ShouldScheduleAlways(p) == TRUE

\* line 1237: if base_path
ShouldSchedule(p) == p # None

(* ------------------------ finalize_yandex_entry ------------------------- *)
\* the storage and file operations of a finalization, in order
FinSteps == {"meta_get", "meta_parse", "meta_put", "note_put", "corrected_get",
             "parquet_exists", "parquet_get", "parquet_read", "parquet_put"}

FinFaults == [FinSteps -> BOOLEAN]

\* variant: the failed upload of feedback.txt leaves the function
FinalizeCaughtButNote(step) == step # "note_put"

\* lines 1001-1002: the handler around the body of finalize_yandex_entry
FinalizeCaught(step) == TRUE

\* lines 1092-1093: the handler around the body of create_parquet_entry_yandex
ParquetCaught(step) == TRUE

\* lines 1008-1093: corrected.json is read if it can be, the day's file is
\* read if it exists and can be fetched, and the combined file is uploaded
create_parquet_entry_yandex(f) ==
    IF f["parquet_exists"] /\ f["parquet_get"] /\ ~f["parquet_read"]
    THEN [raised |-> ~ParquetCaught("parquet_read"), failed_at |-> "parquet_read",
          written |-> FALSE]
    ELSE IF ~f["parquet_put"]
    THEN [raised |-> FALSE, failed_at |-> "parquet_put", written |-> FALSE]
    ELSE [raised |-> FALSE,
          failed_at |-> IF ~f["corrected_get"] THEN "corrected_get"
                        ELSE IF f["parquet_exists"] /\ ~f["parquet_get"] THEN "parquet_get"
                        ELSE "none",
          written |-> TRUE]

\* lines 958-1002
finalize_yandex_entry(cfg, f) ==
    IF ~cfg
    THEN [raised |-> FALSE, failed_at |-> "none", done |-> {}]
    ELSE IF ~f["meta_get"]
    THEN [raised |-> FALSE, failed_at |-> "meta_get", done |-> {}]
    ELSE IF ~f["meta_parse"]
    THEN [raised |-> ~FinalizeCaught("meta_parse"), failed_at |-> "meta_parse", done |-> {}]
    ELSE IF ~f["meta_put"]
    THEN [raised |-> ~FinalizeCaught("meta_put"), failed_at |-> "meta_put", done |-> {}]
    ELSE IF ~f["note_put"]
    THEN [raised |-> ~FinalizeCaught("note_put"), failed_at |-> "note_put",
          done |-> {"meta.json"}]
    ELSE LET pq == create_parquet_entry_yandex(f) IN
         [raised |-> pq.raised /\ ~FinalizeCaught(pq.failed_at),
          failed_at |-> pq.failed_at,
          done |-> {"meta.json", "feedback.txt"}
                   \cup (IF pq.written THEN {"parquet"} ELSE {})]

\* variant: a day's file that was not fetched is left as it is
ParquetAfterKeep(f, pq, row) ==
    IF ~create_parquet_entry_yandex(f).written THEN pq
    ELSE IF pq = << >> \/ (f["parquet_exists"] /\ f["parquet_get"]) THEN Append(pq, row)
    ELSE pq

\* lines 1061-1085: the rows of the day's file after the call: the fetched
\* rows and the new one, or the new row alone when the file was not seen or
\* not fetched; nothing changes without the upload
ParquetAfter(f, pq, row) ==
    IF ~create_parquet_entry_yandex(f).written THEN pq
    ELSE IF f["parquet_exists"] /\ f["parquet_get"] THEN Append(pq, row)
    ELSE <<row>>

NoSave == [log |-> << >>, value |-> None, raised |-> FALSE]
NoFin == [caller |-> "none", status |-> "none", raised |-> FALSE, failed_at |-> "none",
          done |-> {}]

\* no call of _relaxed_json_parse was made
NotParsed == [ok |-> FALSE, value |-> << >>, by |-> "none"]

\* context.user_data with no key
EmptySession ==
    [pdf_file_name |-> FALSE, pdf_bytes |-> FALSE, found_page_number |-> {},
     manual_page_number |-> {}, processed_files |-> FALSE]

\* no handler has returned ConversationHandler.END
NoEnd == [by |-> "none", data |-> EmptySession]

Init ==
    /\ pending_feedback_tasks = << >>
    /\ meta = [p \in Paths |-> "absent"]
    /\ timers = << >>
    /\ conv = [u \in Users |-> "SELECTING_ACTION"]
    /\ user_data = [u \in Users |-> None]
    /\ handler = IdleHandler
    /\ nextPath = 0
    /\ lastWrite = [p \in Paths |-> "none"]
    /\ superseded = {}
    /\ fbFirst = {}
    /\ lpc = "idle"
    /\ model_bound = FALSE
    /\ retries = 0
    /\ last_exception = "none"
    /\ attemptLog = << >>
    /\ retry_raised = [s \in {1, 2} |-> "none"]
    /\ strategy_outcome = [s \in 1..3 |-> "none"]
    /\ ladder_result = [status |-> "none", strategy |-> 0]
    /\ notifier_failed = FALSE
    /\ notifications = << >>
    /\ ppc = "idle"
    /\ uploaded_file = "none"
    /\ wpc = "idle"
    /\ elapsed = 0
    /\ polls = 0
    /\ seen = Unpolled
    /\ seenAt = 0
    /\ response = NoResponse
    /\ invoked = FALSE
    /\ delete_failed = FALSE
    /\ found_page_number = Unset
    /\ reply = "none"
    /\ locate_return = "none"
    /\ apc = "idle"
    /\ client = FALSE
    /\ save = NoSave
    /\ base_path = None
    /\ atimer = "none"
    /\ messages = << >>
    /\ fin = NoFin
    /\ parquet = << >>
    /\ dpc = "idle"
    /\ html_content = << >>
    /\ fallback_numbers = << >>
    /\ fallback_mass = 0
    /\ spc = "idle"
    /\ fenced = << >>
    /\ stripped_once = << >>
    /\ stripped_twice = << >>
    /\ jpc = "idle"
    /\ raw = << >>
    /\ wrapped = << >>
    /\ relaxed = NotParsed
    /\ dumps = << >>
    /\ parse_return = "none"
    /\ tpc = "idle"
    /\ tables = << >>
    /\ full_html_content = << >>
    /\ conversation = "NONE"
    /\ session_data = EmptySession
    /\ xpc = "idle"
    /\ proc_page_number = {}
    /\ stages = << >>
    /\ last_end = NoEnd
    /\ prompt_files = [f \in PromptFiles |-> "text"]
    /\ qpc = "idle"
    /\ prompt = Missing
    /\ model_calls = <<>>
    /\ rpc = "idle"
    /\ num_pages = 1
    /\ page_data = [manual |-> {}, found |-> {}]
    /\ raster_page = 0
    /\ rasterizations = <<>>
    /\ documents = 0
    /\ zpc = [i \in 1..MaxFinalizers |-> "idle"]
    /\ combined_df = [i \in 1..MaxFinalizers |-> {}]
    /\ partition = [exists |-> FALSE, rows |-> {}]
    /\ epc = "idle"
    /\ answer = << >>
    /\ by_document = [next |-> "none", found |-> "unset"]
    /\ by_url = [next |-> "none", found |-> "unset"]
    /\ storage_client = TRUE
    /\ bucket = {}
    /\ store_calls = << >>
    /\ op_result = [op |-> "none", value |-> FALSE, raised |-> FALSE, faulted |-> FALSE]
    /\ operations_done = 0

(* ------------------------ process_specification ------------------------ *)
\* The archive tail of a pipeline run (lines 1226-1302): save_to_yandex_initial
\* returns a fresh base_path (saved) or None, a timeout is scheduled for a
\* non-null path, and the conversation waits for feedback.
ProcessSpecification(u, saved) ==
    /\ handler.pc = "idle"
    /\ conv[u] = "SELECTING_ACTION"
    /\ nextPath < MaxRuns
    /\ IF saved
       THEN LET p == nextPath + 1 IN
            /\ nextPath' = p
            /\ meta' = [meta EXCEPT ![p] = "pending"]
            /\ pending_feedback_tasks' = schedule_feedback_timeout(pending_feedback_tasks, u, p)
            /\ timers' = Append(timers, [user_id |-> u, base_path |-> p, pc |-> "sleeping"])
            /\ user_data' = [user_data EXCEPT ![u] = p]
            /\ superseded' = IF u \in DOMAIN pending_feedback_tasks
                                /\ TimerAsleep(pending_feedback_tasks[u].base_path)
                             THEN superseded \cup {pending_feedback_tasks[u].base_path}
                             ELSE superseded
       ELSE /\ user_data' = [user_data EXCEPT ![u] = None]
            /\ UNCHANGED <<nextPath, meta, pending_feedback_tasks, timers, superseded>>
    /\ conv' = [conv EXCEPT ![u] = "AWAITING_FEEDBACK"]
    /\ UNCHANGED <<handler, lastWrite, fbFirst>>
    /\ UNCHANGED notFeedback

(* ------------------------------- cancel -------------------------------- *)
\* lines 1796-1799: the fallback /cancel clears the session and ends the
\* conversation; a new /start brings the user back to SELECTING_ACTION.
Cancel(u) ==
    /\ handler.pc = "idle"
    /\ conv[u] = "AWAITING_FEEDBACK"
    /\ user_data' = [user_data EXCEPT ![u] = None]
    /\ conv' = [conv EXCEPT ![u] = "SELECTING_ACTION"]
    /\ UNCHANGED <<pending_feedback_tasks, meta, timers, handler, nextPath,
                   lastWrite, superseded, fbFirst>>
    /\ UNCHANGED notFeedback

(* --------------------------- handle_feedback --------------------------- *)
\* lines 1739-1752: session lookup, then cancel and pop of the user's task
HandleFeedbackStart(u, status) ==
    /\ handler.pc = "idle"
    /\ conv[u] = "AWAITING_FEEDBACK"
    /\ IF user_data[u] = None
       THEN /\ conv' = [conv EXCEPT ![u] = "SELECTING_ACTION"]
            /\ UNCHANGED <<pending_feedback_tasks, handler, user_data>>
       ELSE /\ pending_feedback_tasks' =
                   IF u \in DOMAIN pending_feedback_tasks
                   THEN PopTask(CancelPrevious(pending_feedback_tasks, u), u)
                   ELSE pending_feedback_tasks
            /\ handler' = [user |-> u, base_path |-> user_data[u],
                           status |-> status, pc |-> "fin_read"]
            /\ UNCHANGED <<conv, user_data>>
    /\ UNCHANGED <<meta, timers, nextPath, lastWrite, superseded, fbFirst>>
    /\ UNCHANGED notFeedback

\* finalize_yandex_entry lines 969-983 run by the callback: download meta.json
HandleFeedbackRead(ok) ==
    /\ handler.pc = "fin_read"
    /\ IF ok /\ meta[handler.base_path] # "absent"
       THEN /\ handler' = [handler EXCEPT !.pc = "fin_write"]
            /\ UNCHANGED <<conv, user_data>>
       ELSE /\ handler' = IdleHandler
            /\ user_data' = [user_data EXCEPT ![handler.user] = None]
            /\ conv' = [conv EXCEPT ![handler.user] = "SELECTING_ACTION"]
    /\ UNCHANGED <<pending_feedback_tasks, meta, timers, nextPath, lastWrite,
                   superseded, fbFirst>>
    /\ UNCHANGED notFeedback

\* lines 973-978 run by the callback, then lines 1761-1762 / 1793-1794
HandleFeedbackWrite(ok) ==
    /\ handler.pc = "fin_write"
    /\ LET p == handler.base_path IN
       IF ok
       THEN /\ meta' = [meta EXCEPT ![p] = FinalizeStatus(meta[p], handler.status)]
            /\ lastWrite' = [lastWrite EXCEPT ![p] = handler.status]
            /\ fbFirst' = IF TimerAsleep(p) THEN fbFirst \cup {p} ELSE fbFirst
       ELSE UNCHANGED <<meta, lastWrite, fbFirst>>
    /\ handler' = IdleHandler
    /\ user_data' = [user_data EXCEPT ![handler.user] = None]
    /\ conv' = [conv EXCEPT ![handler.user] = "SELECTING_ACTION"]
    /\ UNCHANGED <<pending_feedback_tasks, timers, nextPath, superseded>>
    /\ UNCHANGED notFeedback

(* --------------------------- timeout_handler --------------------------- *)
SetTimerPc(i, pc) == timers' = [timers EXCEPT ![i].pc = pc]

\* lines 924-926: time.sleep(timeout_seconds) ends and the registry is checked.
\* Every thread sleeps the same FEEDBACK_TIMEOUT_SECONDS, so threads wake in
\* the order they were started.  The two dictionary reads of line 926 are taken
\* as one step: a pop between them raises KeyError, which ends the thread as a
\* missing entry does.
TimerFire(i) ==
    /\ i \in DOMAIN timers
    /\ timers[i].pc = "sleeping"
    /\ \A j \in 1..(i-1) : timers[j].pc # "sleeping"
    /\ IF timers[i].user_id \in DOMAIN pending_feedback_tasks
          /\ NotCancelled(pending_feedback_tasks, timers[i].user_id)
       THEN SetTimerPc(i, "fin_read")
       ELSE SetTimerPc(i, "done")
    /\ UNCHANGED <<pending_feedback_tasks, meta, conv, user_data, handler,
                   nextPath, lastWrite, superseded, fbFirst>>
    /\ UNCHANGED notFeedback

\* finalize_yandex_entry(base_path, "timeout") lines 969-983 in the thread
TimerFinRead(i, ok) ==
    /\ i \in DOMAIN timers
    /\ timers[i].pc = "fin_read"
    /\ IF ok /\ meta[timers[i].base_path] # "absent"
       THEN SetTimerPc(i, "fin_write")
       ELSE SetTimerPc(i, "pop")
    /\ UNCHANGED <<pending_feedback_tasks, meta, conv, user_data, handler,
                   nextPath, lastWrite, superseded, fbFirst>>
    /\ UNCHANGED notFeedback

\* lines 973-978 in the thread
TimerFinWrite(i, ok) ==
    /\ i \in DOMAIN timers
    /\ timers[i].pc = "fin_write"
    /\ LET p == timers[i].base_path IN
       IF ok
       THEN /\ meta' = [meta EXCEPT ![p] = FinalizeStatus(meta[p], "timeout")]
            /\ lastWrite' = [lastWrite EXCEPT ![p] = "timeout"]
       ELSE UNCHANGED <<meta, lastWrite>>
    /\ SetTimerPc(i, "pop")
    /\ UNCHANGED <<pending_feedback_tasks, conv, user_data, handler, nextPath,
                   superseded, fbFirst>>
    /\ UNCHANGED notFeedback

\* line 934: pending_feedback_tasks.pop(user_id, None)
TimerPop(i) ==
    /\ i \in DOMAIN timers
    /\ timers[i].pc = "pop"
    /\ pending_feedback_tasks' = PopTask(pending_feedback_tasks, timers[i].user_id)
    /\ SetTimerPc(i, "done")
    /\ UNCHANGED <<meta, conv, user_data, handler, nextPath, lastWrite,
                   superseded, fbFirst>>
    /\ UNCHANGED notFeedback

TimerStep(i, ok) ==
    \/ TimerFire(i)
    \/ TimerFinRead(i, ok)
    \/ TimerFinWrite(i, ok)
    \/ TimerPop(i)

HandlerStep(ok) ==
    \/ HandleFeedbackRead(ok)
    \/ HandleFeedbackWrite(ok)

NextFeedback ==
    \/ \E u \in Users, saved \in BOOLEAN : ProcessSpecification(u, saved)
    \/ \E u \in Users : Cancel(u)
    \/ \E u \in Users, s \in {"good", "bad"} : HandleFeedbackStart(u, s)
    \/ \E ok \in BOOLEAN : HandlerStep(ok)
    \/ \E i \in 1..MaxRuns, ok \in BOOLEAN : TimerStep(i, ok)

SpecFeedback == Init /\ [][NextFeedback]_vars

(* ------------------------ run_gemini_with_retry ------------------------ *)
MAX_RETRIES == 3
BACKOFF_BASE == 5

\* Failures generate_content_async / asyncio.wait_for can end with, by class
Errors == {"InternalServerError", "ServiceUnavailable", "ResourceExhausted",
           "DeadlineExceeded", "TimeoutError", "ConnectionError",
           "BlockedPrompt", "InvalidArgument"}

\* "500" in str(e): the status code the provider puts in front of the message
Str500(e) == e \in {"InternalServerError"}

\* "internal error" in str(e).lower()
StrInternalError(e) == e \in {"InternalServerError"}

\* isinstance(e, asyncio.TimeoutError): raised by asyncio.wait_for (line 480)
IsTimeoutError(e) == e \in {"TimeoutError"}

\* lines 498-499, the classification part of the condition
IsRetryable(e) == Str500(e) \/ StrInternalError(e) \/ IsTimeoutError(e)

\* variant: one retry fewer
ShouldRetryShort(e, r) == IsRetryable(e) /\ r < MAX_RETRIES - 2

\* variant: every failure is retried while attempts remain
ShouldRetryAny(e, r) == r < MAX_RETRIES - 1

\* lines 498-499, the whole condition
ShouldRetry(e, r) == IsRetryable(e) /\ r < MAX_RETRIES - 1

\* variant: the exponent is the incremented counter itself
BackoffWaitLate(r) == BACKOFF_BASE * (2 ^ r)

\* line 501: wait_time = 5 * (2 ** (retries - 1)), retries already incremented
BackoffWait(r) == BACKOFF_BASE * (2 ^ (r - 1))

\* variant: the failure is wrapped in a dedicated error
RaiseWrapped(e) == "ModelUnavailable"

\* line 506: raise e
RaiseFrom(e) == e

Strategy(pc) == IF pc = "s1_call" THEN 1 ELSE 2

\* variants: strategy 2 is skipped; a failure of strategy 2 is not caught
AfterS1FailureSkip == "notify4"
AfterS2FailureUncaught == "raised"

\* lines 430 and 369: where a failure inside a strategy's try block lands
AfterS1Failure == "notify1"
AfterS2Failure == "notify4"

\* variant: the ladder moves on without telling the user
EmitSilent(log, text, s, ok) == log

\* lines 373, 379, 427, 434: one chat.send_message call; `s` is the strategy
\* the ladder has moved to, `ok` tells whether the call returned
Emit(log, text, s, ok) == Append(log, [text |-> text, strategy |-> s, delivered |-> ok])

FailStrategy(s) ==
    /\ strategy_outcome' = [strategy_outcome EXCEPT ![s] = "raised"]
    /\ lpc' = IF s = 1 THEN AfterS1Failure ELSE AfterS2Failure

\* One iteration of the while loop (lines 475-509): the model call, and on a
\* failure the classification, then the backoff sleep or the raise of line 506.
\* The loop test fails only after a sleep (retries = MAX_RETRIES), which leads
\* to the raise of last_exception in line 509.
RetryAttempt(outcome) ==
    /\ lpc \in {"s1_call", "s2_call"}
    /\ retries < MAX_RETRIES
    /\ LET s == Strategy(lpc) IN
       IF outcome = "ok"
       THEN /\ attemptLog' = Append(attemptLog, [strategy |-> s, outcome |-> "ok", wait |-> 0])
            /\ lpc' = IF s = 1 THEN "s1_parse" ELSE "s2_parse"
            /\ UNCHANGED <<retries, last_exception, retry_raised, strategy_outcome>>
       ELSE /\ last_exception' = outcome
            /\ IF ShouldRetry(outcome, retries)
               THEN /\ retries' = retries + 1
                    /\ attemptLog' = Append(attemptLog,
                           [strategy |-> s, outcome |-> outcome, wait |-> BackoffWait(retries + 1)])
                    /\ IF retries + 1 < MAX_RETRIES
                       THEN UNCHANGED <<lpc, retry_raised, strategy_outcome>>
                       ELSE /\ retry_raised' = [retry_raised EXCEPT ![s] = RaiseFrom(outcome)]
                            /\ FailStrategy(s)
               ELSE /\ attemptLog' = Append(attemptLog,
                           [strategy |-> s, outcome |-> outcome, wait |-> 0])
                    /\ retry_raised' = [retry_raised EXCEPT ![s] = RaiseFrom(outcome)]
                    /\ FailStrategy(s)
                    /\ UNCHANGED retries
    /\ UNCHANGED <<model_bound, ladder_result, notifier_failed, notifications>>
    /\ UNCHANGED notLadder

(* ----------------------- run_gemini_with_fallback ---------------------- *)
ParseOutcomes == {"ok", "empty", "malformed"}

\* line 347: the call starts
LadderStart ==
    /\ lpc = "idle"
    /\ lpc' = "s1_setup"
    /\ UNCHANGED <<model_bound, retries, last_exception, attemptLog, retry_raised,
                   strategy_outcome, ladder_result, notifier_failed,
                   notifications>>
    /\ UNCHANGED notLadder

\* lines 354-357: get_prompt, create_gemini_model, entry of the retry call
S1Setup(ok) ==
    /\ lpc = "s1_setup"
    /\ IF ok
       THEN /\ model_bound' = TRUE
            /\ lpc' = "s1_call"
            /\ retries' = 0
            /\ last_exception' = "none"
            /\ strategy_outcome' = [strategy_outcome EXCEPT ![1] = "running"]
       ELSE /\ FailStrategy(1)
            /\ UNCHANGED <<model_bound, retries, last_exception>>
    /\ UNCHANGED <<attemptLog, retry_raised, ladder_result, notifier_failed,
                   notifications>>
    /\ UNCHANGED notLadder

\* line 365-367: parse_gemini_json of the strategy 1 response, then return
S1Parse(outcome) ==
    /\ lpc = "s1_parse"
    /\ IF outcome = "ok"
       THEN /\ lpc' = "returned"
            /\ strategy_outcome' = [strategy_outcome EXCEPT ![1] = "ok"]
            /\ ladder_result' = [status |-> "returned", strategy |-> 1]
       ELSE /\ FailStrategy(1)
            /\ UNCHANGED ladder_result
    /\ UNCHANGED <<model_bound, retries, last_exception, attemptLog, retry_raised,
                   notifier_failed, notifications>>
    /\ UNCHANGED notLadder

\* lines 372-375: the first notification, its failure is ignored
Notify1(ok) ==
    /\ lpc = "notify1"
    /\ notifications' = Emit(notifications, "blocked", 2, ok)
    /\ lpc' = "notify2"
    /\ notifier_failed' = (notifier_failed \/ ~ok)
    /\ UNCHANGED <<model_bound, retries, last_exception, attemptLog, retry_raised,
                   strategy_outcome, ladder_result>>
    /\ UNCHANGED notLadder

\* lines 378-416: the second notification inside the try block of the plain
\* text strategy, the prompt, and the entry of the retry call with `model`
Notify2(ok) ==
    /\ lpc = "notify2"
    /\ notifications' = Emit(notifications, "simplified", 2, ok)
    /\ notifier_failed' = (notifier_failed \/ ~ok)
    /\ IF ok /\ model_bound
       THEN /\ lpc' = "s2_call"
            /\ retries' = 0
            /\ last_exception' = "none"
            /\ strategy_outcome' = [strategy_outcome EXCEPT ![2] = "running"]
       ELSE /\ FailStrategy(2)
            /\ UNCHANGED <<retries, last_exception>>
    /\ UNCHANGED <<model_bound, attemptLog, retry_raised, ladder_result>>
    /\ UNCHANGED notLadder

\* line 424: parse_gemini_json of the strategy 2 response
S2Parse(outcome) ==
    /\ lpc = "s2_parse"
    /\ IF outcome = "ok"
       THEN /\ lpc' = "notify3"
            /\ UNCHANGED strategy_outcome
       ELSE FailStrategy(2)
    /\ UNCHANGED <<model_bound, retries, last_exception, attemptLog, retry_raised,
                   ladder_result, notifier_failed, notifications>>
    /\ UNCHANGED notLadder

\* lines 427-428: the completion notification, still inside the try block
Notify3(ok) ==
    /\ lpc = "notify3"
    /\ notifications' = Emit(notifications, "simplified_done", 2, ok)
    /\ notifier_failed' = (notifier_failed \/ ~ok)
    /\ IF ok
       THEN /\ lpc' = "returned"
            /\ strategy_outcome' = [strategy_outcome EXCEPT ![2] = "ok"]
            /\ ladder_result' = [status |-> "returned", strategy |-> 2]
       ELSE /\ FailStrategy(2)
            /\ UNCHANGED ladder_result
    /\ UNCHANGED <<model_bound, retries, last_exception, attemptLog, retry_raised>>
    /\ UNCHANGED notLadder

\* line 434: the notification that opens the degraded strategy, unguarded
Notify4(ok) ==
    /\ lpc = "notify4"
    /\ notifications' = Emit(notifications, "ocr_report", 3, ok)
    /\ notifier_failed' = (notifier_failed \/ ~ok)
    /\ IF ok
       THEN /\ lpc' = "s3_build"
            /\ strategy_outcome' = [strategy_outcome EXCEPT ![3] = "running"]
            /\ UNCHANGED ladder_result
       ELSE /\ lpc' = "raised"
            /\ strategy_outcome' = [strategy_outcome EXCEPT ![3] = "raised"]
            /\ ladder_result' = [status |-> "raised", strategy |-> 3]
    /\ UNCHANGED <<model_bound, retries, last_exception, attemptLog, retry_raised>>
    /\ UNCHANGED notLadder

\* variant: the degraded strategy asks the model once more
S3BuildAsksModel ==
    /\ lpc = "s3_build"
    /\ lpc' = "returned"
    /\ strategy_outcome' = [strategy_outcome EXCEPT ![3] = "ok"]
    /\ ladder_result' = [status |-> "returned", strategy |-> 3]
    /\ attemptLog' = Append(attemptLog, [strategy |-> 3, outcome |-> "ok", wait |-> 0])
    /\ UNCHANGED <<model_bound, retries, last_exception, retry_raised,
                   notifier_failed, notifications>>
    /\ UNCHANGED notLadder

\* lines 436-466: the degraded result is built from the text and returned
S3Build ==
    /\ lpc = "s3_build"
    /\ lpc' = "returned"
    /\ strategy_outcome' = [strategy_outcome EXCEPT ![3] = "ok"]
    /\ ladder_result' = [status |-> "returned", strategy |-> 3]
    /\ UNCHANGED <<model_bound, retries, last_exception, attemptLog, retry_raised,
                   notifier_failed, notifications>>
    /\ UNCHANGED notLadder

NextLadder ==
    \/ LadderStart
    \/ \E ok \in BOOLEAN : S1Setup(ok)
    \/ \E o \in {"ok"} \cup Errors : RetryAttempt(o)
    \/ \E o \in ParseOutcomes : S1Parse(o)
    \/ \E ok \in BOOLEAN : Notify1(ok)
    \/ \E ok \in BOOLEAN : Notify2(ok)
    \/ \E o \in ParseOutcomes : S2Parse(o)
    \/ \E ok \in BOOLEAN : Notify3(ok)
    \/ \E ok \in BOOLEAN : Notify4(ok)
    \/ S3Build

SpecLadder == Init /\ [][NextLadder]_vars

(* ============ handle_document / handle_file_url: page search =========== *)
\* lines 1527-1530 (1717-1720): the generic handler of the page search
LocateFails ==
    /\ ppc' = "end"
    /\ reply' = "analysis_error"
    /\ locate_return' = "END"

\* variant: the page search goes on after a failed wait
AfterWaitFailureInvoke == "invoke"

\* line 1468: the handler returns after a failed wait
AfterWaitFailure == "end"

\* line 1461, then line 202 on entry of the waiter
UploadFile(ok) ==
    /\ ppc = "idle"
    /\ IF ok
       THEN /\ ppc' = "wait"
            /\ wpc' = "poll"
            /\ elapsed' = 0
            /\ UNCHANGED <<reply, locate_return>>
       ELSE /\ LocateFails
            /\ UNCHANGED <<wpc, elapsed>>
    /\ UNCHANGED <<polls, seen, seenAt, response, invoked, delete_failed, found_page_number>>
    /\ uploaded_file' = IF ok THEN "uploaded" ELSE uploaded_file
    /\ UNCHANGED notLocate

\* lines 206-236: one loop iteration of the waiter up to its sleep; the
\* get_file call took d poll intervals
WaitPoll(st, d) ==
    /\ wpc = "poll"
    /\ elapsed' = elapsed + d
    /\ polls' = polls + 1
    /\ seen' = st
    /\ seenAt' = elapsed + d
    /\ wpc' = PollOutcome(st, elapsed + d)
    /\ UNCHANGED <<ppc, response, invoked, delete_failed, found_page_number, reply,
                   locate_return>>
    /\ UNCHANGED uploaded_file
    /\ UNCHANGED notLocate

\* line 206 raises, lines 238-240 log and re-raise
WaitPollError ==
    /\ wpc = "poll"
    /\ wpc' = "error"
    /\ UNCHANGED <<ppc, elapsed, polls, seen, seenAt, response, invoked, delete_failed,
                   found_page_number, reply, locate_return>>
    /\ UNCHANGED uploaded_file
    /\ UNCHANGED notLocate

\* line 237
WaitSleep ==
    /\ wpc = "sleep"
    /\ elapsed' = elapsed + PollTicks
    /\ wpc' = "poll"
    /\ UNCHANGED <<ppc, polls, seen, seenAt, response, invoked, delete_failed, found_page_number,
                   reply, locate_return>>
    /\ UNCHANGED uploaded_file
    /\ UNCHANGED notLocate

\* lines 1463-1468: the waiter returned the handle, or raised
AfterWait ==
    /\ ppc = "wait"
    /\ wpc \in {"returned", "failed", "timeout", "error"}
    /\ IF wpc = "returned"
       THEN /\ ppc' = "invoke"
            /\ UNCHANGED <<reply, locate_return>>
       ELSE /\ ppc' = AfterWaitFailure
            /\ reply' = "service_unavailable"
            /\ locate_return' = "END"
    /\ UNCHANGED <<wpc, elapsed, polls, seen, seenAt, response, invoked, delete_failed,
                   found_page_number>>
    /\ UNCHANGED uploaded_file
    /\ UNCHANGED notLocate

\* lines 1470-1476: the page search call through run_gemini_with_retry
ModelInvoke(ok, r) ==
    /\ ppc = "invoke"
    /\ invoked' = TRUE
    /\ IF ok
       THEN /\ response' = r
            /\ ppc' = "delete"
            /\ UNCHANGED <<reply, locate_return>>
       ELSE /\ LocateFails
            /\ UNCHANGED response
    /\ UNCHANGED <<wpc, elapsed, polls, seen, seenAt, delete_failed, found_page_number>>
    /\ UNCHANGED uploaded_file
    /\ UNCHANGED notLocate

\* line 1477: genai.delete_file, with no handler of its own
DeleteFile(ok) ==
    /\ ppc = "delete"
    /\ IF ok
       THEN /\ ppc' = "parse"
            /\ UNCHANGED <<delete_failed, reply, locate_return>>
       ELSE /\ delete_failed' = TRUE
            /\ LocateFails
    /\ UNCHANGED <<wpc, elapsed, polls, seen, seenAt, response, invoked, found_page_number>>
    /\ uploaded_file' = IF ok THEN "deleted" ELSE uploaded_file
    /\ UNCHANGED notLocate

\* lines 1479-1498: the response is parsed into a JSON object, then the page
\* number is read, compared with 0 and stored
ParseResponse ==
    /\ ppc = "parse"
    /\ IF response.status = "malformed"
       THEN /\ ppc' = "end"
            /\ reply' = "parse_error"
            /\ locate_return' = "END"
            /\ UNCHANGED found_page_number
       ELSE LET page_number == GetPage(response) IN
            IF EqZero(page_number)
            THEN /\ ppc' = "end"
                 /\ reply' = "manual_page"
                 /\ locate_return' = "AWAITING_MANUAL_PAGE"
                 /\ UNCHANGED found_page_number
            ELSE /\ found_page_number' = page_number
                 /\ ppc' = "preview"
                 /\ UNCHANGED <<reply, locate_return>>
    /\ UNCHANGED <<wpc, elapsed, polls, seen, seenAt, response, invoked, delete_failed>>
    /\ UNCHANGED uploaded_file
    /\ UNCHANGED notLocate

\* lines 1499-1525: the page is loaded, rendered and sent for confirmation;
\* ok tells whether fitz and Telegram accepted it
Preview(ok) ==
    /\ ppc = "preview"
    /\ IF CanSubtract(found_page_number) /\ ok
       THEN /\ ppc' = "end"
            /\ reply' = "preview"
            /\ locate_return' = "AWAITING_CONFIRMATION"
       ELSE LocateFails
    /\ UNCHANGED <<wpc, elapsed, polls, seen, seenAt, response, invoked, delete_failed,
                   found_page_number>>
    /\ UNCHANGED uploaded_file
    /\ UNCHANGED notLocate

NextLocate ==
    \/ \E ok \in BOOLEAN : UploadFile(ok)
    \/ \E st \in FileStates, d \in 0..MaxPollDelay : WaitPoll(st, d)
    \/ WaitPollError
    \/ WaitSleep
    \/ AfterWait
    \/ \E ok \in BOOLEAN, r \in Responses : ModelInvoke(ok, r)
    \/ \E ok \in BOOLEAN : DeleteFile(ok)
    \/ ParseResponse
    \/ \E ok \in BOOLEAN : Preview(ok)

SpecLocate == Init /\ [][NextLocate]_vars

\* the event loop resumes a coroutine whose awaited call has completed
SpecLocateFair == Init /\ [][NextLocate]_vars /\ WF_vars(NextLocate)

(* ========== process_specification tail, handle_feedback, archive ========= *)
\* what the two buttons answer (lines 1756 and 1783)
Thanks(b) == IF b = "feedback_yes" THEN "thanks" ELSE "contact_admin"

\* lines 1226-1238: the archive is written and, for a path, the timeout is
\* scheduled; an exception would reach the handler of lines 1304-1307
SaveInitial(cfg, w) ==
    /\ apc = "idle"
    /\ LET r == save_to_yandex_initial(cfg, w) IN
       /\ client' = cfg
       /\ save' = r
       /\ IF r.raised
          THEN /\ apc' = "end"
               /\ messages' = Append(messages, "unexpected_error")
               /\ UNCHANGED atimer
          ELSE /\ apc' = "deliver"
               /\ atimer' = IF ShouldSchedule(r.value) THEN "asleep" ELSE "none"
               /\ UNCHANGED messages
    /\ UNCHANGED <<base_path, fin, parquet>>
    /\ UNCHANGED notArchive

\* lines 1240-1302: the reports, the feedback question, the session record
DeliverReports ==
    /\ apc = "deliver"
    /\ messages' = messages \o <<"success", "specification.xlsx", "specification.txt",
                                 "feedback_request">>
    /\ base_path' = save.value
    /\ apc' = "awaiting_feedback"
    /\ UNCHANGED <<client, save, atimer, fin, parquet>>
    /\ UNCHANGED notArchive

\* lines 1734-1758 (1783): a feedback button up to the finalize call
FeedbackButton(b) ==
    /\ apc = "awaiting_feedback"
    /\ IF base_path = None
       THEN /\ messages' = Append(messages, "session_not_found")
            /\ apc' = "end"
            /\ UNCHANGED atimer
       ELSE /\ atimer' = IF atimer = "asleep" THEN "cancelled" ELSE atimer
            /\ messages' = Append(messages, Thanks(b))
            /\ apc' = IF b = "feedback_yes" THEN "finalize_good" ELSE "finalize_bad"
    /\ UNCHANGED <<client, save, base_path, fin, parquet>>
    /\ UNCHANGED notArchive

\* lines 924-927: the thread wakes with its entry in place
TimeoutFires ==
    /\ atimer = "asleep"
    /\ atimer' = "finalize"
    /\ UNCHANGED <<apc, client, save, base_path, messages, fin, parquet>>
    /\ UNCHANGED notArchive

\* lines 953-1002 with 1004-1093, called by handle_feedback (then lines
\* 1761-1762) or by the timer thread (then lines 932-934)
Finalize(caller, f) ==
    LET r == finalize_yandex_entry(client, f)
        row == IF caller = "feedback"
               THEN (IF apc = "finalize_good" THEN "good" ELSE "bad")
               ELSE "timeout" IN
    \* file_exists answers True only for a file that is there
    /\ f["parquet_exists"] => parquet # << >>
    /\ parquet' = IF r.failed_at \in {"meta_get", "meta_parse", "meta_put", "note_put"}
                     \/ ~client
                  THEN parquet
                  ELSE ParquetAfter(f, parquet, row)
    /\ IF caller = "feedback"
       THEN /\ apc \in {"finalize_good", "finalize_bad"}
            /\ fin' = [caller |-> caller,
                       status |-> IF apc = "finalize_good" THEN "good" ELSE "bad",
                       raised |-> r.raised, failed_at |-> r.failed_at, done |-> r.done]
            /\ apc' = IF r.raised THEN "crashed" ELSE "end"
            /\ base_path' = IF r.raised THEN base_path ELSE None
            /\ UNCHANGED atimer
       ELSE /\ atimer = "finalize"
            /\ fin' = [caller |-> caller, status |-> "timeout",
                       raised |-> r.raised, failed_at |-> r.failed_at, done |-> r.done]
            /\ atimer' = IF r.raised THEN "crashed" ELSE "done"
            /\ UNCHANGED <<apc, base_path>>
    /\ UNCHANGED <<client, save, messages>>
    /\ UNCHANGED notArchive

NextArchive ==
    \/ \E cfg \in BOOLEAN, w \in WriteFaults : SaveInitial(cfg, w)
    \/ DeliverReports
    \/ \E b \in {"feedback_yes", "feedback_no"} : FeedbackButton(b)
    \/ TimeoutFires
    \/ \E c \in {"feedback", "timer"}, f \in FinFaults : Finalize(c, f)

SpecArchive == Init /\ [][NextArchive]_vars

(* ======================== feedback finalization ======================== *)
\* The same steps when every storage operation succeeds
NextFeedbackOk ==
    \/ \E u \in Users : ProcessSpecification(u, TRUE)
    \/ \E u \in Users : Cancel(u)
    \/ \E u \in Users, s \in {"good", "bad"} : HandleFeedbackStart(u, s)
    \/ HandlerStep(TRUE)
    \/ \E i \in 1..MaxRuns : TimerStep(i, TRUE)

\* Timer threads run to completion and a started callback finishes; what the
\* user does (new runs, /cancel, pressing a feedback button) is not forced.
SpecFeedbackFair ==
    /\ Init
    /\ [][NextFeedbackOk]_vars
    /\ \A i \in 1..MaxRuns : WF_vars(TimerStep(i, TRUE))
    /\ WF_vars(HandlerStep(TRUE))

Scheduled(p) == \E i \in DOMAIN timers : timers[i].base_path = p

\* C1: a task replaced by a later schedule for the same user, while its own
\* timer was still asleep and without feedback, leaves its record 'pending':
\* the superseded timer does nothing when it fires.
C1_SupersededStaysPending == \A p \in superseded : meta[p] = "pending"

\* C2: a record finalized as good/bad by handle_feedback before its own timer
\* fired is never turned into 'timeout' afterwards.
C2_FeedbackBeatsTimeout == \A p \in fbFirst : meta[p] # "timeout"

\* C3 (as claimed): once a record has a terminal status, no step changes it.
C3_StatusChangesOnce ==
    [][\A p \in Paths : meta[p] \in Terminal => meta'[p] = meta[p]]_vars

\* C3 (amended): a record starts 'pending' and never returns to 'pending'; its
\* stored status is always the status of the last finalize call that completed
\* its metadata write, whatever was stored before (last writer wins).
C3_LastWriterWins ==
    \A p \in Paths :
        /\ lastWrite[p] = "none" => meta[p] \in {"absent", "pending"}
        /\ lastWrite[p] # "none" => meta[p] = lastWrite[p] /\ meta[p] \in Terminal
        /\ p > nextPath <=> meta[p] = "absent"

\* a record finalized 'good'/'bad' by feedback and overwritten by a later timer
C3_Witness == \E p \in fbFirst : meta[p] = "timeout" /\ lastWrite[p] = "timeout"

\* C4: with storage working and timers firing, every record for which a
\* timeout was scheduled eventually leaves 'pending'.
C4_ScheduledLeavesPending ==
    \A p \in Paths : Scheduled(p) ~> (meta[p] \in Terminal)

(* ============================ retry and ladder ========================= *)
\* The coroutine goes on whenever the call it awaits has completed
SpecLadderFair == Init /\ [][NextLadder]_vars /\ WF_vars(NextLadder)

AttemptsOf(s) == {i \in DOMAIN attemptLog : attemptLog[i].strategy = s}

\* position of log entry i among the attempts of its retry call
AttemptNo(i) == Cardinality({j \in AttemptsOf(attemptLog[i].strategy) : j <= i})

AllFailedRetryable(s) ==
    \A i \in AttemptsOf(s) : attemptLog[i].outcome \in {"InternalServerError", "TimeoutError"}

Exhausted(s) ==
    /\ Cardinality(AttemptsOf(s)) = MAX_RETRIES
    /\ \A i \in AttemptsOf(s) : attemptLog[i].outcome # "ok"

LadderDone == lpc \in {"returned", "raised"}

C6_LadderOrder ==
    /\ strategy_outcome[2] # "none" => strategy_outcome[1] = "raised"
    /\ strategy_outcome[3] # "none" => strategy_outcome[2] = "raised"
    /\ \A i, j \in DOMAIN attemptLog : i < j => attemptLog[i].strategy <= attemptLog[j].strategy
    /\ AttemptsOf(2) # {} => strategy_outcome[1] = "raised"
    /\ ladder_result.status = "returned" =>
          /\ strategy_outcome[ladder_result.strategy] = "ok"
          /\ \A s \in 1..3 : s < ladder_result.strategy => strategy_outcome[s] = "raised"
          /\ \A s \in 1..3 : s > ladder_result.strategy => strategy_outcome[s] = "none"
    /\ strategy_outcome[1] = "ok" =>
          /\ AttemptsOf(2) = {}
          /\ strategy_outcome[2] = "none" /\ strategy_outcome[3] = "none"
          /\ ladder_result = [status |-> "returned", strategy |-> 1]

\* strategy 1 raised after its retries, strategy 2 produced the result
C6_Witness ==
    /\ ladder_result = [status |-> "returned", strategy |-> 2]
    /\ Exhausted(1)
    /\ strategy_outcome = [s \in 1..3 |-> IF s = 1 THEN "raised" ELSE IF s = 2 THEN "ok" ELSE "none"]

\* C7: a retry call never makes more than MAX_RETRIES model calls, and when
\* every attempt fails with an internal error or the per-attempt timeout it
\* makes exactly MAX_RETRIES calls and then fails.
C7_RetryBound ==
    \A s \in {1, 2} :
        /\ Cardinality(AttemptsOf(s)) <= MAX_RETRIES
        /\ retry_raised[s] # "none" /\ AllFailedRetryable(s) =>
               Cardinality(AttemptsOf(s)) = MAX_RETRIES
        /\ Cardinality(AttemptsOf(s)) = MAX_RETRIES /\ AllFailedRetryable(s) =>
               retry_raised[s] # "none"

C7_Witness ==
    /\ Len(attemptLog) = MAX_RETRIES
    /\ attemptLog[1].outcome = "InternalServerError"
    /\ attemptLog[2].outcome = "TimeoutError"
    /\ attemptLog[3].outcome = "TimeoutError"
    /\ retry_raised[1] = "TimeoutError"

\* C8: a failure outside the retryable classes (a content block among them)
\* ends the retry call at once: it is the last attempt of the call, no wait
\* follows it and it is what the call raises; after such a failure of
\* strategy 1 the next model call is made by strategy 2.
C8_NonRetryablePropagates ==
    \A i \in DOMAIN attemptLog :
        LET a == attemptLog[i] IN
        a.outcome \in Errors /\ (a.outcome = "BlockedPrompt" \/ ~IsRetryable(a.outcome)) =>
            /\ a.wait = 0
            /\ retry_raised[a.strategy] = a.outcome
            /\ \A j \in AttemptsOf(a.strategy) : j <= i
            /\ AttemptNo(i) = 1 => Cardinality(AttemptsOf(a.strategy)) = 1
            /\ a.strategy = 1 =>
                  /\ strategy_outcome[1] = "raised"
                  /\ lpc \notin {"s1_call", "s1_parse"}
                  /\ i < Len(attemptLog) => attemptLog[i + 1].strategy = 2

\* strategy 1 was blocked on its first attempt, strategy 2 made the next call
C8_Witness ==
    /\ Len(attemptLog) = 2
    /\ attemptLog[1] = [strategy |-> 1, outcome |-> "BlockedPrompt", wait |-> 0]
    /\ attemptLog[2].strategy = 2

C10_BackoffGrowth ==
    \A i \in DOMAIN attemptLog :
        LET a == attemptLog[i]
            k == AttemptNo(i) IN
        /\ a.wait # 0 =>
              /\ a.outcome \in Errors
              /\ k < MAX_RETRIES
              /\ a.wait = 5 * (2 ^ (k - 1))
              /\ lpc # (IF a.strategy = 1 THEN "s1_call" ELSE "s2_call") =>
                     \E j \in AttemptsOf(a.strategy) : j > i
        /\ (\E j \in AttemptsOf(a.strategy) : j > i) =>
              a.wait = 5 * (2 ^ (k - 1)) /\ a.wait = (IF k = 1 THEN 5 ELSE 10)
        /\ retry_raised[a.strategy] # "none" /\ (\A j \in AttemptsOf(a.strategy) : j <= i) =>
              a.wait = 0

C10_Witness ==
    /\ Len(attemptLog) = MAX_RETRIES
    /\ attemptLog[1].wait = 5
    /\ attemptLog[2].wait = 10
    /\ attemptLog[3].wait = 0
    /\ retry_raised[1] # "none"

\* C11: a failed attempt in any transient class (internal error, service
\* unavailable, too many requests, deadline exceeded, timeout, connection
\* failure) that leaves attempts is classified retryable: a backoff wait is
\* taken after it and the call does not end with it.
C11_TransientRetried ==
    \A i \in DOMAIN attemptLog :
        LET a == attemptLog[i] IN
        /\ a.outcome \in {"InternalServerError", "ServiceUnavailable", "ResourceExhausted",
                          "DeadlineExceeded", "TimeoutError", "ConnectionError"}
        /\ AttemptNo(i) < MAX_RETRIES
        => /\ a.wait > 0
           /\ retry_raised[a.strategy] # a.outcome \/ (\E j \in AttemptsOf(a.strategy) : j > i)

(* ===================== wait_for_gemini_file_active ===================== *)
\* the normalized state of a poll: active is a name containing ACTIVE or the
\* code 2, failed is a name containing FAILED or the code 3
SeenActive(st) == Contains(ACTIVE, Upper(st.name)) \/ st.code = 2
SeenFailed(st) == Contains(FAILED, Upper(st.name)) \/ st.code = 3
SeenOther(st) == ~SeenActive(st) /\ ~SeenFailed(st)

WaiterDone == wpc \in {"returned", "failed", "timeout", "error"}

\* C12: the waiter returns at the first poll that sees an active state and
\* polls no further, fails with "file processing failed" at the first poll
\* that sees a failed state, and after a poll that sees any other state
\* (processing, unspecified, missing) it polls again one poll interval later,
\* unless its time budget has run out.
C12_WaiterClassification ==
    /\ [](polls > 0 /\ SeenActive(seen) <=> wpc = "returned")
    /\ [](polls > 0 /\ SeenFailed(seen) <=> wpc = "failed")
    /\ [](polls > 0 /\ SeenOther(seen) /\ seenAt <= TimeoutTicks =>
             wpc \in {"sleep", "poll", "error"})
    /\ [][polls' # polls =>
             /\ polls' = polls + 1
             /\ polls > 0 => SeenOther(seen) /\ seenAt' >= seenAt + PollTicks]_vars
    /\ [][(wpc \in {"returned", "failed"}) => (polls' = polls /\ wpc' = wpc)]_vars

\* the third poll saw the numeric code 2 after two polls that saw other states
C12_Witness ==
    /\ polls = 3
    /\ seen = [kind |-> "int", name |-> << >>, code |-> 2]
    /\ wpc = "returned"

\* C13: a started waiter always terminates; when a poll that saw neither an
\* active nor a failed state finds more than timeout_seconds elapsed, the
\* waiter fails with the timeout error; a poll that saw the active state is
\* never answered with the timeout error.
C13_WaiterTerminates ==
    /\ (wpc = "poll") ~> WaiterDone
    /\ [](polls > 0 /\ SeenOther(seen) /\ seenAt > TimeoutTicks => wpc = "timeout")
    /\ [](wpc = "timeout" => polls > 0 /\ SeenOther(seen) /\ seenAt > TimeoutTicks)
    /\ [][wpc = "timeout" => (polls' = polls /\ wpc' = wpc)]_vars

\* the budget ran out on a poll that still saw PROCESSING
C13_Witness ==
    /\ wpc = "timeout"
    /\ polls >= 2
    /\ seen = [kind |-> "enum", name |-> PROCESSING, code |-> 1]

(* ============================ page location ============================ *)
\* the response was parsed into a JSON object and its page number was read
ParsedOk == response.status = "ok" /\ ~delete_failed /\ ppc \in {"preview", "end"}

IsPositiveInt(v) == v.type = "int" /\ v.val > 0

\* C14: after a successfully parsed response, a page field that is 0 or
\* absent gives NotFound (the manual page request, nothing stored), and a
\* positive integer p gives Found(p): exactly p is stored as the found page.
C14_PageNotFoundContract ==
    ParsedOk =>
        /\ response.page.type = "absent" \/ response.page = [type |-> "int", val |-> 0] =>
              /\ reply = "manual_page"
              /\ locate_return = "AWAITING_MANUAL_PAGE"
              /\ found_page_number = Unset
        /\ IsPositiveInt(response.page) =>
              /\ found_page_number = response.page
              /\ reply # "manual_page"
              /\ locate_return # "AWAITING_MANUAL_PAGE"

\* page 2 was reported, stored and shown for confirmation
C14_Witness ==
    /\ response = [status |-> "ok", page |-> [type |-> "int", val |-> 2]]
    /\ found_page_number = [type |-> "int", val |-> 2]
    /\ locate_return = "AWAITING_CONFIRMATION"

\* C15: a page number is stored as found_page_number only if it is a positive
\* integer; a negative, null or non-integer page value is never stored.
C15_FoundOnlyPositive ==
    found_page_number # Unset => IsPositiveInt(found_page_number)

\* C16: on the upload path the order is upload, readiness wait, model call:
\* the model is called only after the waiter returned a handle it saw active;
\* when the waiter fails the model is never called, the handler answers
\* "service unavailable" and ends, and neither the wait nor the upload is
\* tried again.
C16_UploadWaitInvoke ==
    /\ [](wpc # "idle" => ppc # "idle")
    /\ [](invoked \/ ppc = "invoke" => wpc = "returned" /\ SeenActive(seen))
    /\ [](wpc \in {"failed", "timeout", "error"} =>
             /\ ~invoked
             /\ ppc \in {"wait", "end"}
             /\ ppc = "end" => reply = "service_unavailable" /\ locate_return = "END")
    /\ [][WaiterDone => (wpc' = wpc /\ polls' = polls)]_vars
    /\ [][ppc = "end" => UNCHANGED pvars]_vars

\* the waiter timed out and the handler ended without a model call
C16_Witness ==
    /\ wpc = "timeout"
    /\ ppc = "end"
    /\ reply = "service_unavailable"
    /\ ~invoked

\* the model was called after the second poll saw the file active
C16_WitnessInvoked ==
    /\ invoked
    /\ polls = 2
    /\ wpc = "returned"

\* C17: a failure to delete the uploaded file does not turn the page search
\* into an error: the handler still ends with the result of the response,
\* the confirmation preview or the manual page request.
C17_DeleteBestEffort ==
    delete_failed /\ ppc = "end" => reply \in {"preview", "manual_page"}

(* =============================== archive =============================== *)
Saved == apc # "idle"

WriteFailed == \E i \in DOMAIN save.log : ~save.log[i].ok

ReportsDelivered ==
    \E i, j \in DOMAIN messages :
        messages[i] = "specification.xlsx" /\ messages[j] = "specification.txt"

\* C18 (as claimed): the initial save returns null whenever any artifact
\* write fails.
C18_AnyWriteFailureGivesNull ==
    Saved /\ WriteFailed => save.value = None

\* C18 (amended): the initial save never raises; it returns null when the
\* store is unconfigured and when an artifact could not be written, where the
\* page image counts as unwritten only after input.webp and then input.png
\* were both refused; with a null path the reports are still delivered and
\* no feedback timeout is scheduled, with a path one is scheduled.
C18_SaveNeverBlocks ==
    Saved =>
        /\ ~save.raised
        /\ apc # "crashed" /\ (\A i \in DOMAIN messages : messages[i] # "unexpected_error")
        /\ ~client => save.value = None /\ save.log = << >>
        /\ client => save.log # << >>
        /\ client /\ ~save.log[Len(save.log)].ok => save.value = None
        /\ (\E i \in DOMAIN save.log :
               ~save.log[i].ok /\ save.log[i].artifact # "input.webp") => save.value = None
        /\ save.value # None =>
               /\ client
               /\ save.log[Len(save.log)] = [artifact |-> "meta.json", ok |-> TRUE]
               /\ \A i \in DOMAIN save.log :
                     ~save.log[i].ok =>
                         /\ save.log[i].artifact = "input.webp"
                         /\ save.log[i + 1] = [artifact |-> "input.png", ok |-> TRUE]
        /\ save.value = None => atimer = "none"
        /\ save.value # None => atimer # "none"
        /\ apc \notin {"idle", "deliver"} => ReportsDelivered

\* corrected.json was refused: null, no timer, and the reports were delivered
C18_Witness ==
    /\ client
    /\ save.log[Len(save.log)] = [artifact |-> "corrected.json", ok |-> FALSE]
    /\ save.value = None
    /\ atimer = "none"
    /\ apc = "awaiting_feedback"
    /\ ReportsDelivered

\* input.webp was refused, input.png accepted, and a path was returned
C18_WitnessFallback ==
    /\ Len(save.log) > 1
    /\ save.log[1] = [artifact |-> "input.webp", ok |-> FALSE]
    /\ save.value # None
    /\ atimer = "asleep"

IsPrefix(a, b) == Len(a) <= Len(b) /\ SubSeq(b, 1, Len(a)) = a

\* what a run whose archive was written shows for the button b
ArchivedRunMessages(b) ==
    <<"success", "specification.xlsx", "specification.txt", "feedback_request", Thanks(b)>>

\* C19: a failed (or unconfigured) archive is never surfaced to the user: up
\* to and including the reply to the feedback button, the messages of the run
\* are those of a run whose archive was written.
C19_ArchiveFailureInvisible ==
    \E b \in {"feedback_yes", "feedback_no"} : IsPrefix(messages, ArchivedRunMessages(b))

\* C20: finalize_yandex_entry never raises to its caller: whichever storage
\* read or write fails, the feedback callback goes on to clear the session
\* and end, and the timer thread goes on to remove its registry entry.
C20_FinalizeNeverRaises ==
    /\ ~fin.raised
    /\ apc # "crashed"
    /\ atimer # "crashed"
    /\ fin.caller = "feedback" => apc = "end" /\ base_path = None
    /\ fin.caller = "timer" => atimer = "done"
    /\ fin.failed_at \in {"meta_get", "meta_parse", "meta_put"} => fin.done = {}

\* the timer's finalization lost the upload of feedback.txt and still finished
C20_Witness ==
    /\ fin.caller = "timer"
    /\ fin.failed_at = "note_put"
    /\ fin.done = {"meta.json"}
    /\ atimer = "done"

\* the callback's finalization could not read the day's analytics file
C20_WitnessFeedback ==
    /\ fin.caller = "feedback"
    /\ fin.failed_at = "parquet_read"
    /\ apc = "end"

(* ============================== analytics ============================== *)
\* C21: a finalize call only appends to the day's analytics file: the rows
\* stored before the call are all still there after it, in place, followed
\* by at most the one new row, also when a storage read failed during it.
C21_AppendMerges ==
    [][IsPrefix(parquet, parquet') /\ Len(parquet') <= Len(parquet) + 1]_vars

(* =========================== ladder notifier =========================== *)
\* C22: a chat.send_message call that raises is not fatal to the ladder: the
\* ladder does not raise because of it, and no strategy fails because of it
\* (a strategy whose model call and parsing went through gives the result).
C22_NotifierNonFatal ==
    notifier_failed =>
        /\ lpc # "raised"
        /\ ladder_result.status # "raised"
        /\ lpc \in {"notify3", "notify4", "s3_build", "returned"}
           /\ (\E i \in AttemptsOf(2) : attemptLog[i].outcome = "ok")
           /\ strategy_outcome[2] = "raised"
           => FALSE

\* C23: a strategy after the first has produced an outcome only after a
\* chat.send_message call announcing it was made, a later strategy returns its
\* result only after such a call was delivered, and a run that strategy 1
\* answers makes no chat.send_message call at all.
C23_TransitionsNotify ==
    /\ \A s \in {2, 3} :
          strategy_outcome[s] \in {"ok", "raised"} =>
              \E i \in DOMAIN notifications : notifications[i].strategy = s
    /\ \A s \in {2, 3} :
          (ladder_result.status = "returned" /\ ladder_result.strategy = s) =>
              \E i \in DOMAIN notifications :
                  notifications[i].strategy = s /\ notifications[i].delivered
    /\ (ladder_result.status = "returned" /\ ladder_result.strategy = 1) =>
          notifications = << >>

\* the degraded strategy answered after strategy 1 and 2 failed, the first
\* announcement was lost and the later ones were delivered
C23_Witness ==
    /\ lpc = "returned"
    /\ ladder_result.strategy = 3
    /\ Len(notifications) = 3
    /\ ~notifications[1].delivered
    /\ notifications[3].text = "ocr_report"

(* ============ run_gemini_with_fallback: the degraded result ============ *)
\* the texts the degraded strategy is run on: no cell "7.0 ", or MaxRepeat - 1
\* or MaxRepeat of them, followed by any text of MaxTail characters at most
MaxRepeat == 10
MaxTail == 3

Alphabet == {"1", "2", ",", ".", "<", ">"}
RepeatCounts == {0, MaxRepeat - 1, MaxRepeat}
Digits == {"0", "1", "2", "3", "4", "5", "6", "7", "8", "9"}
Texts(n) == UNION {[1..k -> Alphabet] : k \in 0..n}

RECURSIVE Repeat(_, _)
Repeat(s, k) == IF k = 0 THEN << >> ELSE s \o Repeat(s, k - 1)

Cell == <<"7", ".", "0", " ">>
SpecExample == <<"1", "2", ",", "5", " ", "7", ".", "0", " ", "a", "b", "c">>

\* a mass is kept as a whole number of 1/Scale, exact for every text above
Scale == 10 ^ (MaxTail + 1)

\* position of the first ">" of s after its first character, 0 when none
RECURSIVE FirstClose(_, _)
FirstClose(s, i) ==
    IF i > Len(s) THEN 0
    ELSE IF s[i] = ">" THEN i ELSE FirstClose(s, i + 1)

\* line 438: re.sub(r'<[^>]+>', '\n', html_content)
RECURSIVE StripTags(_)
StripTags(s) ==
    IF s = << >> THEN << >>
    ELSE LET j == FirstClose(s, 2) IN
         IF Head(s) = "<" /\ j >= 3
         THEN <<"\n">> \o StripTags(SubSeq(s, j + 1, Len(s)))
         ELSE <<Head(s)>> \o StripTags(Tail(s))

\* length of the longest prefix of s made of digits
RECURSIVE DigitRun(_)
DigitRun(s) ==
    IF s = << >> \/ Head(s) \notin Digits THEN 0 ELSE 1 + DigitRun(Tail(s))

\* length of the match of \d+[,.]?\d* at the head of s, 0 when there is none
MatchLen(s) ==
    LET d == DigitRun(s) IN
    IF d = 0 THEN 0
    ELSE IF d < Len(s) /\ s[d + 1] \in {",", "."}
         THEN d + 1 + DigitRun(SubSeq(s, d + 2, Len(s)))
         ELSE d

\* line 442: re.findall(r'\d+[,.]?\d*', plain_text)
RECURSIVE FindNumbers(_)
FindNumbers(s) ==
    IF s = << >> THEN << >>
    ELSE LET m == MatchLen(s) IN
         IF m = 0 THEN FindNumbers(Tail(s))
         ELSE <<SubSeq(s, 1, m)>> \o FindNumbers(SubSeq(s, m + 1, Len(s)))

\* str.replace of one character by a string of characters
RECURSIVE Replace(_, _, _)
Replace(s, c, by) ==
    IF s = << >> THEN << >>
    ELSE (IF Head(s) = c THEN by ELSE <<Head(s)>>) \o Replace(Tail(s), c, by)

\* str.isdigit on the characters of the texts above
IsDigit(s) == s # << >> /\ \A i \in DOMAIN s : s[i] \in Digits

DigitValue(c) == CHOOSE v \in 0..9 : <<"0", "1", "2", "3", "4", "5", "6", "7", "8", "9">>[v + 1] = c

RECURSIVE Whole(_)
Whole(s) == IF s = << >> THEN 0 ELSE 10 * Whole(SubSeq(s, 1, Len(s) - 1)) + DigitValue(s[Len(s)])

\* line 455: float(n.replace(',', '.')) of a match of the pattern
Float(n) ==
    LET t == Replace(n, ",", <<".">>)
        d == DigitRun(t)
        frac == SubSeq(t, d + 2, Len(t)) IN
    Whole(SubSeq(t, 1, d)) * Scale + Whole(frac) * 10 ^ (MaxTail + 1 - Len(frac))

\* line 455: the test of the comprehension
Numeric(n) == IsDigit(Replace(Replace(n, ",", <<".">>), ".", << >>))

RECURSIVE Sum(_)
Sum(s) == IF s = << >> THEN 0 ELSE Head(s) + Sum(Tail(s))

RECURSIVE Keep(_)
Keep(s) ==
    IF s = << >> THEN << >>
    ELSE (IF Numeric(Head(s)) THEN <<Head(s)>> ELSE << >>) \o Keep(Tail(s))

\* line 455: numbers[:10]
SUMMED == 10

\* variant: every match is summed
SlicedAll(numbers) == numbers

Sliced(numbers) == SubSeq(numbers, 1, IF Len(numbers) < SUMMED THEN Len(numbers) ELSE SUMMED)

\* line 455: the "масса" of the single element
Mass(numbers) ==
    IF numbers # << >>
    THEN LET kept == Keep(Sliced(numbers)) IN Sum([i \in DOMAIN kept |-> Float(kept[i])])
    ELSE 0

\* the degraded strategy is entered with some table text
DegradedEnter(k, tail) ==
    /\ dpc = "idle"
    /\ dpc' = "entered"
    /\ html_content' = Repeat(Cell, k) \o tail
    /\ UNCHANGED <<fallback_numbers, fallback_mass>>
    /\ UNCHANGED notDegraded

\* lines 438-455: the numbers of the text and the mass of the element
DegradedBuild ==
    /\ dpc = "entered"
    /\ dpc' = "built"
    /\ LET plain_text == StripTags(html_content)
           numbers == FindNumbers(plain_text) IN
       /\ fallback_numbers' = numbers
       /\ fallback_mass' = Mass(numbers)
    /\ UNCHANGED html_content
    /\ UNCHANGED notDegraded

NextDegraded ==
    \/ \E k \in RepeatCounts : \E tail \in Texts(MaxTail) \cup {SpecExample} :
          DegradedEnter(k, tail)
    \/ DegradedBuild

SpecDegraded == Init /\ [][NextDegraded]_vars

\* C24: the mass of the degraded result is the sum of the first 10 numeric
\* tokens of the text left after the tags are removed, each read with its
\* comma as a decimal point, tokens that are not numbers being passed over
\* before the first 10 are taken; it is 0 when the text holds no such token.
C24_DegradedMass ==
    dpc = "built" =>
        LET tokens == FindNumbers(StripTags(html_content))
            numeric == Keep(tokens)
            first == SubSeq(numeric, 1, IF Len(numeric) < 10 THEN Len(numeric) ELSE 10) IN
        /\ fallback_mass = Sum([i \in DOMAIN first |-> Float(first[i])])
        /\ numeric = << >> => fallback_mass = 0

\* the text of the specification's example gives 19.5
C24_Witness ==
    /\ dpc = "built"
    /\ html_content = SpecExample
    /\ fallback_numbers = << <<"1", "2", ",", "5">>, <<"7", ".", "0">> >>
    /\ 2 * fallback_mass = 39 * Scale

(* ========================= _strip_code_fences ========================== *)
\* the texts tried: every text of MaxFenced characters at most made of the
\* backtick, a line break and a brace, and a fenced answer with a language tag
MaxFenced == 7

\* the backtick character
Backtick == "BACKTICK"

Fence == <<Backtick, Backtick, Backtick>>

FenceAlphabet == {Backtick, "\n", "{"}
FencedAnswer == Fence \o <<"j", "\n", "{", "\n">> \o Fence
FencedTexts == UNION {[1..k -> FenceAlphabet] : k \in 0..MaxFenced} \cup {FencedAnswer}

\* the white space and the characters of a language tag, among those above
Whitespace == {"\n", " "}
LanguageChars == {"j"}

StartsWith(s, p) == Len(s) >= Len(p) /\ SubSeq(s, 1, Len(p)) = p

\* length of the longest prefix of s made of characters of the set cs
RECURSIVE Run(_, _)
Run(s, cs) == IF s = << >> \/ Head(s) \notin cs THEN 0 ELSE 1 + Run(Tail(s), cs)

Drop(s, n) == SubSeq(s, n + 1, Len(s))

\* str.strip()
RECURSIVE RStrip(_)
RStrip(s) ==
    IF s # << >> /\ s[Len(s)] \in Whitespace THEN RStrip(SubSeq(s, 1, Len(s) - 1)) ELSE s

StrStrip(s) == RStrip(Drop(s, Run(s, Whitespace)))

\* line 577: the opening fence, the language tag and the white space after
\* it are removed from a text that starts with the fence
DropOpening(s) ==
    LET a == Drop(s, 3)
        b == Drop(a, Run(a, LanguageChars)) IN
    Drop(b, Run(b, Whitespace))

\* the pattern of line 579 matches at the head of s: an optional line break,
\* the fence, white space up to the end
ClosingAt(s) ==
    LET t == IF s # << >> /\ Head(s) = "\n" /\ StartsWith(Tail(s), Fence) THEN Tail(s) ELSE s IN
    /\ StartsWith(t, Fence)
    /\ Run(Drop(t, 3), Whitespace) = Len(t) - 3

\* line 579: the leftmost match of the closing fence is removed, and it
\* ends the text
RECURSIVE DropClosing(_)
DropClosing(s) ==
    IF s = << >> THEN << >>
    ELSE IF ClosingAt(s) THEN << >>
    ELSE <<Head(s)>> \o DropClosing(Tail(s))

\* lines 572-580
StripCodeFences(x) ==
    LET s == StrStrip(x) IN
    IF StartsWith(s, Fence)
    THEN StrStrip(DropClosing(DropOpening(s)))
    ELSE s

FenceEnter(x) ==
    /\ spc = "idle"
    /\ spc' = "entered"
    /\ fenced' = x
    /\ UNCHANGED <<stripped_once, stripped_twice>>
    /\ UNCHANGED notFences

StripOnce ==
    /\ spc = "entered"
    /\ spc' = "once"
    /\ stripped_once' = StripCodeFences(fenced)
    /\ UNCHANGED <<fenced, stripped_twice>>
    /\ UNCHANGED notFences

StripTwice ==
    /\ spc = "once"
    /\ spc' = "twice"
    /\ stripped_twice' = StripCodeFences(stripped_once)
    /\ UNCHANGED <<fenced, stripped_once>>
    /\ UNCHANGED notFences

NextFences ==
    \/ \E x \in FencedTexts : FenceEnter(x)
    \/ StripOnce
    \/ StripTwice

SpecFences == Init /\ [][NextFences]_vars

\* C25: stripping the code fences of a text that was already stripped
\* changes nothing.
C25_StripIdempotent ==
    spc = "twice" => stripped_twice = stripped_once

(* ============== _relaxed_json_parse and parse_gemini_json ============== *)
\* A response text is a sequence of tokens: the braces, the brackets, the
\* comma, "k" for a key with its colon, "1" for a number and "w" for a word
\* that is not JSON. The texts tried are a JSON object, or nothing, between
\* two stretches of MaxNoise tokens at most.
MaxNoise == 2

NoiseTokens == {"w", "{", "}", "[", "]"}
Noise == UNION {[1..k -> NoiseTokens] : k \in 0..MaxNoise}

FlatObject == <<"{", "k", "1", "}">>
NestedObject == <<"{", "k", "{", "k", "1", "}", "}">>
Objects == {FlatObject, NestedObject}

At(s, i) == IF i \in DOMAIN s THEN s[i] ELSE "eof"

\* json.loads: the position after the JSON value that starts at s[i], 0 when
\* there is none
RECURSIVE ValueEnd(_, _), MembersEnd(_, _), ElementsEnd(_, _)
ValueEnd(s, i) ==
    CASE At(s, i) = "1" -> i + 1
      [] At(s, i) = "{" -> IF At(s, i + 1) = "}" THEN i + 2 ELSE MembersEnd(s, i + 1)
      [] At(s, i) = "[" -> IF At(s, i + 1) = "]" THEN i + 2 ELSE ElementsEnd(s, i + 1)
      [] OTHER -> 0

MembersEnd(s, i) ==
    IF At(s, i) # "k" THEN 0
    ELSE LET j == ValueEnd(s, i + 1) IN
         CASE j = 0 -> 0
           [] At(s, j) = "," -> MembersEnd(s, j + 1)
           [] At(s, j) = "}" -> j + 1
           [] OTHER -> 0

ElementsEnd(s, i) ==
    LET j == ValueEnd(s, i) IN
    CASE j = 0 -> 0
      [] At(s, j) = "," -> ElementsEnd(s, j + 1)
      [] At(s, j) = "]" -> j + 1
      [] OTHER -> 0

\* json.loads(s) returns: s is one JSON value and nothing else
Loads(s) == ValueEnd(s, 1) = Len(s) + 1

\* str.find and str.rfind, 0 for the -1 of Python
Find(s, c) == IF \E i \in DOMAIN s : s[i] = c
              THEN CHOOSE i \in DOMAIN s : s[i] = c /\ \A j \in 1..(i - 1) : s[j] # c
              ELSE 0
RFind(s, c) == IF \E i \in DOMAIN s : s[i] = c
               THEN CHOOSE i \in DOMAIN s : s[i] = c /\ \A j \in (i + 1)..Len(s) : s[j] # c
               ELSE 0

Parsed(v, by) == [ok |-> TRUE, value |-> v, by |-> by]
DecodeError(by) == [ok |-> FALSE, value |-> << >>, by |-> by]

\* lines 600-613: the scan from position i with `depth` braces on the stack
\* and the span opened at `start` (0 for None)
RECURSIVE Scan(_, _, _, _)
Scan(s, i, depth, start) ==
    IF i > Len(s) THEN << >>
    ELSE IF s[i] = "{"
         THEN Scan(s, i + 1, depth + 1, IF start = 0 THEN i ELSE start)
    ELSE IF s[i] = "}" /\ depth > 0
         THEN IF depth = 1 /\ start # 0
              THEN IF Loads(SubSeq(s, start, i))
                   THEN SubSeq(s, start, i)
                   ELSE Scan(s, i + 1, 0, 0)
              ELSE Scan(s, i + 1, depth - 1, start)
    ELSE Scan(s, i + 1, depth, start)

\* lines 618-626: the bracket span, then the text itself
ArrayOrRaise(s) ==
    LET first_sq == Find(s, "[")
        last_sq == RFind(s, "]") IN
    IF first_sq # 0 /\ last_sq # 0 /\ last_sq > first_sq
    THEN IF Loads(SubSeq(s, first_sq, last_sq))
         THEN Parsed(SubSeq(s, first_sq, last_sq), "array")
         ELSE DecodeError("array")
    ELSE DecodeError("direct")

\* lines 582-627
RelaxedJsonParse(text) ==
    LET s == StripCodeFences(text)
        first_brace == Find(s, "{")
        last_brace == RFind(s, "}") IN
    IF Loads(s) THEN Parsed(s, "direct")
    ELSE IF first_brace # 0 /\ last_brace # 0 /\ last_brace > first_brace
         THEN IF Loads(SubSeq(s, first_brace, last_brace))
              THEN Parsed(SubSeq(s, first_brace, last_brace), "object")
              ELSE LET found == Scan(s, 1, 0, 0) IN
                   IF found # << >> THEN Parsed(found, "scan") ELSE ArrayOrRaise(s)
         ELSE ArrayOrRaise(s)

\* the response arrives
ResponseArrives(lead, object, trail) ==
    /\ jpc = "idle"
    /\ jpc' = "arrived"
    /\ raw' = lead \o object \o trail
    /\ wrapped' = object
    /\ UNCHANGED <<relaxed, dumps, parse_return>>
    /\ UNCHANGED notParse

\* lines 644-653: the dump is written when TEMP_DIR could be made and the
\* file could be written
Dump(sink, text, dir_ok, write_ok) ==
    IF dir_ok /\ write_ok THEN Append(sink, text) ELSE sink

\* lines 629-654: parse_gemini_json; dir_ok and write_ok tell whether
\* os.makedirs and the writing of the file would go through if reached
ParseGeminiJson(dir_ok, write_ok) ==
    /\ jpc = "arrived"
    /\ jpc' = "done"
    /\ IF raw = << >>
       THEN /\ parse_return' = "ValueError"
            /\ UNCHANGED <<relaxed, dumps>>
       ELSE LET r == RelaxedJsonParse(raw) IN
            /\ relaxed' = r
            /\ IF r.ok
               THEN /\ parse_return' = "returned"
                    /\ UNCHANGED dumps
               ELSE /\ dumps' = Dump(dumps, raw, dir_ok, write_ok)
                    /\ parse_return' = IF dir_ok THEN "JSONDecodeError" ELSE "OSError"
    /\ UNCHANGED <<raw, wrapped>>
    /\ UNCHANGED notParse

NextParse ==
    \/ \E lead \in Noise, trail \in Noise, object \in Objects \cup {<< >>} :
          ResponseArrives(lead, object, trail)
    \/ \E dir_ok \in BOOLEAN, write_ok \in BOOLEAN : ParseGeminiJson(dir_ok, write_ok)

SpecParse == Init /\ [][NextParse]_vars

\* C26: a text made of noise, one JSON object and more noise parses to
\* exactly that object.
C26_ObjectRecovered ==
    (jpc = "done" /\ wrapped # << >>) =>
        /\ relaxed.ok
        /\ relaxed.value = wrapped

\* C27: a parse that succeeds writes no dump; when every attempt to parse
\* has failed the raw text is written to a dump file if the file can be
\* written, and the caller gets the parse error whether or not it could.
C27_DumpOnTotalFailure ==
    (jpc = "done" /\ raw # << >>) =>
        /\ relaxed.ok => (dumps = << >> /\ parse_return = "returned")
        /\ ~relaxed.ok => parse_return = "JSONDecodeError"
        /\ dumps # << >> => (~relaxed.ok /\ dumps = <<raw>>)

(* ================= table_to_html and its concatenation ================= *)
\* The tables tried: a grid of one of the Dims, with MaxCells cells at most at
\* distinct positions, some of them outside the grid, or the table of the
\* specification's example; one such table alone or followed by the example.
MaxCells == 2

None_content == <<"None">>
Contents == {<<"x">>, <<"<">>}
Dims == {<<1, 2>>, <<2, 2>>}
CellRows == 0..1
CellColumns == 0..2
CellValues == [row_index : CellRows, column_index : CellColumns, content : Contents]

DistinctPositions(cells) ==
    \A i, j \in DOMAIN cells :
        (cells[i].row_index = cells[j].row_index
         /\ cells[i].column_index = cells[j].column_index) => i = j

CellLists == {cells \in UNION {[1..k -> CellValues] : k \in 0..MaxCells} :
                 DistinctPositions(cells)}

ExampleTable ==
    [row_count |-> 2, column_count |-> 3,
     cells |-> <<[row_index |-> 0, column_index |-> 0, content |-> <<"x">>],
                 [row_index |-> 0, column_index |-> 2, content |-> <<"y">>],
                 [row_index |-> 1, column_index |-> 1, content |-> None_content]>>]

Tables == {[row_count |-> d[1], column_count |-> d[2], cells |-> cells] :
              d \in Dims, cells \in CellLists} \cup {ExampleTable}

\* a text is a sequence of lines, the empty text is one empty line
EmptyText == << << >> >>

\* html.escape
Escape(s) ==
    Replace(Replace(Replace(Replace(Replace(s, "&", <<"&", "a", "m", "p", ";">>),
        "<", <<"&", "l", "t", ";">>), ">", <<"&", "g", "t", ";">>),
        "\"", <<"&", "q", "u", "o", "t", ";">>), "'", <<"&", "#", "x", "2", "7", ";">>)

\* line 314: cell.content or ''
ContentOrEmpty(content) == IF content = None_content THEN << >> ELSE content

\* variant: rows and columns are exchanged
GridPositionTransposed(cell) == <<cell.column_index, cell.row_index>>

\* line 314: grid[cell.row_index][cell.column_index]
GridPosition(cell) == <<cell.row_index, cell.column_index>>

\* lines 308-314: the grid after the cells from the i-th on were placed
RECURSIVE Fill(_, _, _)
Fill(grid, table, i) ==
    IF i > Len(table.cells) THEN grid
    ELSE LET cell == table.cells[i]
             at == GridPosition(cell) IN
         IF cell.row_index < table.row_count /\ cell.column_index < table.column_count
         THEN Fill([grid EXCEPT ![at] = ContentOrEmpty(cell.content)], table, i + 1)
         ELSE Fill(grid, table, i + 1)

TdLine(content) == <<"<td>", Escape(content), "</td>">>

RECURSIVE RowLines(_, _, _, _)
RowLines(grid, table, r, c) ==
    IF c >= table.column_count THEN << >>
    ELSE <<TdLine(grid[<<r, c>>])>> \o RowLines(grid, table, r, c + 1)

RECURSIVE GridLines(_, _, _)
GridLines(grid, table, r) ==
    IF r >= table.row_count THEN << >>
    ELSE <<<<"<tr>">>>> \o RowLines(grid, table, r, 0) \o <<<<"</tr>">>>>
         \o GridLines(grid, table, r + 1)

\* lines 302-327
table_to_html(table) ==
    IF table.cells = << >> THEN EmptyText
    ELSE LET empty == [p \in (0..(table.row_count - 1)) \X (0..(table.column_count - 1)) |-> << >>]
             grid == Fill(empty, table, 1) IN
         <<<<"<table border=\"1\">">>>> \o GridLines(grid, table, 0) \o <<<<"</table>">>>>

\* line 1156: "\n<hr>\n".join(parts)
RECURSIVE JoinHr(_)
JoinHr(parts) ==
    IF parts = << >> THEN EmptyText
    ELSE IF Len(parts) = 1 THEN parts[1]
    ELSE parts[1] \o <<<<"<hr>">>>> \o JoinHr(Tail(parts))

\* line 1146-1150: the OCR service returned at least one table
OcrReturns(first, rest) ==
    /\ tpc = "idle"
    /\ tpc' = "analyzed"
    /\ tables' = <<first>> \o rest
    /\ UNCHANGED full_html_content
    /\ UNCHANGED notTables

\* lines 1155-1156
CombineTables ==
    /\ tpc = "analyzed"
    /\ tpc' = "combined"
    /\ full_html_content' = JoinHr([i \in DOMAIN tables |-> table_to_html(tables[i])])
    /\ UNCHANGED tables
    /\ UNCHANGED notTables

NextTables ==
    \/ \E first \in Tables, rest \in {<< >>, <<ExampleTable>>} : OcrReturns(first, rest)
    \/ CombineTables

SpecTables == Init /\ [][NextTables]_vars

\* the content of the cell of the table at row r and column c, empty when the
\* list holds no such cell
ContentAt(table, r, c) ==
    IF \E i \in DOMAIN table.cells :
           table.cells[i].row_index = r /\ table.cells[i].column_index = c
    THEN ContentOrEmpty((CHOOSE cell \in {table.cells[i] : i \in DOMAIN table.cells} :
                            cell.row_index = r /\ cell.column_index = c).content)
    ELSE << >>

\* the lines from..from+n-1 of the text are the grid of the table
IsGridAt(text, from, table) ==
    LET w == table.column_count + 2 IN
    /\ from + 1 + table.row_count * w <= Len(text)
    /\ text[from] = <<"<table border=\"1\">">>
    /\ text[from + 1 + table.row_count * w] = <<"</table>">>
    /\ \A r \in 0..(table.row_count - 1) :
          /\ text[from + 1 + r * w] = <<"<tr>">>
          /\ text[from + 1 + r * w + table.column_count + 1] = <<"</tr>">>
          /\ \A c \in 0..(table.column_count - 1) :
                text[from + 1 + r * w + 1 + c] =
                    <<"<td>", Escape(ContentAt(table, r, c)), "</td>">>

GridLength(table) == 2 + table.row_count * (table.column_count + 2)

\* the number of lines a table takes in the text
RenderedLength(table) == IF table.cells = << >> THEN 1 ELSE GridLength(table)

\* the line at which the i-th table starts when every table takes the lines
\* of its grid (grids) or the lines of its rendering
RECURSIVE Offset(_, _, _)
Offset(ts, i, grids) ==
    IF i = 1 THEN 1
    ELSE Offset(ts, i - 1, grids)
         + (IF grids THEN GridLength(ts[i - 1]) ELSE RenderedLength(ts[i - 1])) + 1

FoundPages == {{n} : n \in 1..MaxPage}
ManualPages == {{n} : n \in 0..MaxPage}

\* line 1103: manual_page_number or found_page_number
ManualOrFound(data) ==
    IF data.manual_page_number # {} /\ data.manual_page_number # {0}
    THEN data.manual_page_number
    ELSE data.found_page_number

\* variant: the reports are sent before the archive is written
StepsDeliverFirst == <<"read", "ocr", "structure", "deliver", "save", "return">>

\* lines 1101-1302: the order of the steps of process_specification
Steps == <<"read", "ocr", "structure", "save", "deliver", "return">>

NextStep(pc) == Steps[(CHOOSE i \in DOMAIN Steps : Steps[i] = pc) + 1]

\* context.user_data.clear()
Cleared == EmptySession

\* a handler returns ConversationHandler.END with the session data `data`
ReturnEnd(by, data) ==
    /\ conversation' = "NONE"
    /\ session_data' = data
    /\ last_end' = [by |-> by, data |-> data]
    /\ xpc' = "idle"

\* lines 1309-1326: /start opens the conversation
Start ==
    /\ conversation = "NONE"
    /\ conversation' = "SELECTING_ACTION"
    /\ UNCHANGED <<session_data, xpc, proc_page_number, stages, last_end>>
    /\ UNCHANGED notSession

IntakeOutcomes == {"too_big", "download_error", "bad_pdf", "locate_error", "not_found", "found"}

\* lines 1328-1530: a PDF document arrives
HandleDocument(outcome, found) ==
    /\ conversation = "SELECTING_ACTION"
    /\ LET named == [session_data EXCEPT !.pdf_file_name = TRUE]
           loaded == [named EXCEPT !.pdf_bytes = TRUE] IN
       CASE outcome = "too_big" ->
                /\ conversation' = "AWAITING_URL"
                /\ UNCHANGED <<session_data, xpc, last_end>>
         [] outcome = "download_error" -> ReturnEnd("handle_document", named)
         [] outcome \in {"bad_pdf", "locate_error"} -> ReturnEnd("handle_document", loaded)
         [] outcome = "not_found" ->
                /\ conversation' = "AWAITING_MANUAL_PAGE"
                /\ session_data' = loaded
                /\ UNCHANGED <<xpc, last_end>>
         [] outcome = "found" ->
                /\ conversation' = "AWAITING_CONFIRMATION"
                /\ session_data' = [loaded EXCEPT !.found_page_number = found]
                /\ UNCHANGED <<xpc, last_end>>
    /\ UNCHANGED <<proc_page_number, stages>>
    /\ UNCHANGED notSession

\* lines 1586-1732: a link arrives
HandleFileUrl(outcome, found) ==
    /\ conversation \in {"SELECTING_ACTION", "AWAITING_URL"}
    /\ LET named == [session_data EXCEPT !.pdf_file_name = TRUE]
           loaded == [named EXCEPT !.pdf_bytes = TRUE] IN
       CASE outcome \in {"too_big", "download_error", "bad_pdf"} ->
                /\ conversation' = "AWAITING_URL"
                /\ session_data' = named
                /\ UNCHANGED <<xpc, last_end>>
         [] outcome = "locate_error" -> ReturnEnd("handle_file_url", loaded)
         [] outcome = "not_found" ->
                /\ conversation' = "AWAITING_MANUAL_PAGE"
                /\ session_data' = loaded
                /\ UNCHANGED <<xpc, last_end>>
         [] outcome = "found" ->
                /\ conversation' = "AWAITING_CONFIRMATION"
                /\ session_data' = [loaded EXCEPT !.found_page_number = found]
                /\ UNCHANGED <<xpc, last_end>>
    /\ UNCHANGED <<proc_page_number, stages>>
    /\ UNCHANGED notSession

\* lines 1535-1574: the answer to "is this the page?"
HandleConfirmationChoice(yes) ==
    /\ conversation = "AWAITING_CONFIRMATION"
    /\ xpc = "idle"
    /\ IF yes
       THEN /\ xpc' = "read"
            /\ stages' = << >>
            /\ UNCHANGED conversation
       ELSE /\ conversation' = "AWAITING_MANUAL_PAGE"
            /\ UNCHANGED <<xpc, stages>>
    /\ UNCHANGED <<session_data, proc_page_number, last_end>>
    /\ UNCHANGED notSession

\* lines 1576-1584: a page number typed by the user; `typed` is empty when
\* the text is not an integer
HandleManualPageInput(typed) ==
    /\ conversation = "AWAITING_MANUAL_PAGE"
    /\ xpc = "idle"
    /\ IF typed # {}
       THEN /\ session_data' = [session_data EXCEPT !.manual_page_number = typed]
            /\ xpc' = "read"
            /\ stages' = << >>
       ELSE UNCHANGED <<session_data, xpc, stages>>
    /\ UNCHANGED <<conversation, proc_page_number, last_end>>
    /\ UNCHANGED notSession

\* lines 1102-1103: the document and the page number are read
ProcRead ==
    /\ xpc = "read"
    /\ IF session_data.pdf_bytes
       THEN /\ proc_page_number' = ManualOrFound(session_data)
            /\ stages' = Append(stages, "page")
            /\ xpc' = NextStep(xpc)
            /\ UNCHANGED <<conversation, session_data, last_end>>
       ELSE /\ ReturnEnd("process_specification", session_data)
            /\ UNCHANGED <<proc_page_number, stages>>
    /\ UNCHANGED notSession

OcrOutcomes == {"no_such_page", "too_large", "no_tables", "error", "tables"}

\* variant: a page without tables goes on to structuring
ProcOcrGoesOn(outcome) ==
    /\ xpc = "ocr"
    /\ IF proc_page_number = {} \/ outcome = "error"
       THEN /\ ReturnEnd("process_specification", session_data)
            /\ stages' = IF proc_page_number = {} THEN stages ELSE Append(stages, "ocr")
       ELSE IF outcome \in {"no_such_page", "too_large"}
       THEN /\ xpc' = "idle"
            /\ UNCHANGED <<conversation, session_data, last_end, stages>>
       ELSE IF outcome = "no_tables"
       THEN /\ xpc' = NextStep(xpc)
            /\ stages' = stages \o <<"ocr", "no_table_message">>
            /\ UNCHANGED <<conversation, session_data, last_end>>
       ELSE /\ xpc' = NextStep(xpc)
            /\ stages' = stages \o <<"ocr", "table_text">>
            /\ UNCHANGED <<conversation, session_data, last_end>>
    /\ UNCHANGED proc_page_number
    /\ UNCHANGED notSession

\* lines 1105-1164: the page is rendered and sent to the OCR service
ProcOcr(outcome) ==
    /\ xpc = "ocr"
    /\ IF proc_page_number = {} \/ outcome = "error"
       THEN /\ ReturnEnd("process_specification", session_data)
            /\ stages' = IF proc_page_number = {} THEN stages ELSE Append(stages, "ocr")
       ELSE IF outcome \in {"no_such_page", "too_large"}
       THEN /\ xpc' = "idle"
            /\ UNCHANGED <<conversation, session_data, last_end, stages>>
       ELSE IF outcome = "no_tables"
       THEN /\ xpc' = "idle"                  \* lines 1151-1153: message, return
            /\ stages' = stages \o <<"ocr", "no_table_message">>
            /\ UNCHANGED <<conversation, session_data, last_end>>
       ELSE /\ xpc' = NextStep(xpc)
            /\ stages' = stages \o <<"ocr", "table_text">>
            /\ UNCHANGED <<conversation, session_data, last_end>>
    /\ UNCHANGED proc_page_number
    /\ UNCHANGED notSession

\* lines 1166-1210: run_gemini_with_fallback and the building of the reports
ProcStructure(returned) ==
    /\ xpc = "structure"
    /\ IF returned
       THEN /\ xpc' = NextStep(xpc)
            /\ stages' = stages \o <<"structuring", "structured">>
            /\ UNCHANGED <<conversation, session_data, last_end>>
       ELSE /\ ReturnEnd("process_specification", session_data)
            /\ stages' = Append(stages, "structuring")
    /\ UNCHANGED proc_page_number
    /\ UNCHANGED notSession

\* lines 1212-1238: save_to_yandex_initial and, for a path, the timeout
ProcSave(saved, raised) ==
    /\ xpc = "save"
    /\ IF raised
       THEN /\ ReturnEnd("process_specification", session_data)
            /\ UNCHANGED stages
       ELSE /\ xpc' = NextStep(xpc)
            /\ stages' = stages \o (IF saved THEN <<"archive", "pending", "scheduled">>
                                    ELSE <<"archive">>)
            /\ UNCHANGED <<conversation, session_data, last_end>>
    /\ UNCHANGED proc_page_number
    /\ UNCHANGED notSession

\* lines 1240-1288: the success message, the reports, the feedback question
ProcDeliver(sent) ==
    /\ xpc = "deliver"
    /\ IF sent
       THEN /\ xpc' = NextStep(xpc)
            /\ stages' = stages \o <<"report", "prompt">>
            /\ UNCHANGED <<conversation, session_data, last_end>>
       ELSE /\ ReturnEnd("process_specification", session_data)
            /\ UNCHANGED stages
    /\ UNCHANGED proc_page_number
    /\ UNCHANGED notSession

\* lines 1291-1302
ProcReturn ==
    /\ xpc = "return"
    /\ xpc' = "idle"
    /\ session_data' = [session_data EXCEPT !.processed_files = TRUE]
    /\ conversation' = "AWAITING_FEEDBACK"
    /\ UNCHANGED <<proc_page_number, stages, last_end>>
    /\ UNCHANGED notSession

\* lines 1734-1794: a feedback button
HandleFeedback ==
    /\ conversation = "AWAITING_FEEDBACK"
    /\ ReturnEnd("handle_feedback", Cleared)
    /\ UNCHANGED <<proc_page_number, stages>>
    /\ UNCHANGED notSession

\* lines 1796-1799: /cancel
CancelCommand ==
    /\ conversation # "NONE"
    /\ xpc = "idle"
    /\ ReturnEnd("cancel", Cleared)
    /\ UNCHANGED <<proc_page_number, stages>>
    /\ UNCHANGED notSession

NextSession ==
    \/ Start
    \/ \E o \in IntakeOutcomes, found \in FoundPages : HandleDocument(o, found)
    \/ \E o \in IntakeOutcomes, found \in FoundPages : HandleFileUrl(o, found)
    \/ \E yes \in BOOLEAN : HandleConfirmationChoice(yes)
    \/ \E typed \in ManualPages \cup {{}} : HandleManualPageInput(typed)
    \/ ProcRead
    \/ \E o \in OcrOutcomes : ProcOcr(o)
    \/ \E returned \in BOOLEAN : ProcStructure(returned)
    \/ \E saved \in BOOLEAN, raised \in BOOLEAN : ProcSave(saved, raised)
    \/ \E sent \in BOOLEAN : ProcDeliver(sent)
    \/ ProcReturn
    \/ HandleFeedback
    \/ CancelCommand

SpecSession == Init /\ [][NextSession]_vars

\* the first position of the event in the log, 0 when it is not there
Position(log, e) ==
    IF \E i \in DOMAIN log : log[i] = e
    THEN CHOOSE i \in DOMAIN log : log[i] = e /\ \A j \in 1..(i - 1) : log[j] # e
    ELSE 0

Before(log, a, b) == Position(log, b) # 0 => (Position(log, a) # 0 /\ Position(log, a) < Position(log, b))

\* C29: in a run of process_specification the OCR service is called only
\* after a page number was read and is a number, structuring starts only
\* after the table text was produced, the archive is written only after
\* structuring returned, the reports and the feedback question are sent only
\* after the archive write returned, and when that write made a pending
\* record its timeout was scheduled before they are sent.
C29_StagesInOrder ==
    /\ Before(stages, "page", "ocr")
    /\ Position(stages, "ocr") # 0 => proc_page_number # {}
    /\ Before(stages, "table_text", "structuring")
    /\ Before(stages, "structured", "archive")
    /\ Before(stages, "archive", "report")
    /\ Before(stages, "archive", "prompt")
    /\ Position(stages, "pending") # 0 => Position(stages, "scheduled") # 0
    /\ \A sent \in {"report", "prompt"} :
          (Position(stages, sent) # 0 /\ Position(stages, "pending") # 0) =>
              /\ Position(stages, "pending") < Position(stages, sent)
              /\ Position(stages, "scheduled") < Position(stages, sent)

\* a run went through every stage and waits for the feedback
C29_Witness ==
    /\ conversation = "AWAITING_FEEDBACK"
    /\ stages = <<"page", "ocr", "table_text", "structuring", "structured",
                  "archive", "pending", "scheduled", "report", "prompt">>

\* C30: whenever a handler has returned ConversationHandler.END the session
\* data was cleared at that return.
C30_ClearedAtEnd ==
    last_end.by # "none" => last_end.data = Cleared

(* ================== get_prompt and the calls that use it ================ *)
(* The prompt resources are files of the deployment; a file can be absent  *)
(* or empty.  get_prompt turns a missing file into the empty string, and   *)
(* the call sites hand whatever it returned to run_gemini_with_retry.      *)

\* get_prompt, lines 242-248: the text of the file, "" when open() raises
\* FileNotFoundError.
get_prompt(files, file_path) ==
    IF files[file_path] = Missing THEN "" ELSE files[file_path]

\* The deployment's prompts directory changes between two calls.
Deploy(file_path, text) ==
    /\ qpc = "idle"
    /\ prompt_files[file_path] # text
    /\ prompt_files' = [prompt_files EXCEPT ![file_path] = text]
    /\ UNCHANGED <<qpc, prompt, model_calls>>
    /\ UNCHANGED notPrompts

\* handle_document line 1440, handle_file_url line 1663, strategy 1 line 354:
\* prompt = get_prompt(...), with no test of the value.
ReadPrompt(site) ==
    /\ qpc = "idle"
    /\ Len(model_calls) < MaxCalls
    /\ prompt' = get_prompt(prompt_files, PromptOf[site])
    /\ qpc' = site
    /\ UNCHANGED <<prompt_files, model_calls>>
    /\ UNCHANGED notPrompts

\* run_gemini_with_retry lines 478-487: generate_content_async([prompt, content]).
InvokeModel ==
    /\ qpc \in CallSites
    /\ model_calls' = Append(model_calls, [site |-> qpc, prompt |-> prompt])
    /\ qpc' = "idle"
    /\ prompt' = Missing
    /\ UNCHANGED prompt_files
    /\ UNCHANGED notPrompts

NextPrompts ==
    \/ \E f \in PromptFiles, t \in PromptTexts \cup {Missing} : Deploy(f, t)
    \/ \E s \in CallSites : ReadPrompt(s)
    \/ InvokeModel

SpecPrompts == Init /\ [][NextPrompts]_vars

\* C31: the model is never invoked with an empty prompt, neither in page
\* location nor in the full-fidelity structuring strategy.
C31_NoEmptyPromptCall ==
    \A i \in 1..Len(model_calls) : model_calls[i].prompt # ""

(* ============== the page number and the pages it rasterizes ============= *)
(* One user's documents, one after the other.  Every load_page call made   *)
(* for an image is recorded with the page number it was made for and the   *)
(* page count of the document.  A page number kept in user_data is a set,  *)
(* as in the conversation machine.                                         *)

DocPages == 1..MaxDocPages
ReportedPages == (-1)..MaxPage       \* result.get("page", 0), int(text)

\* fitz load_page(page_number - 1): an index at or past the page count
\* raises ValueError, a negative index counts from the end.
load_page(page, pages) ==
    IF page - 1 >= pages THEN "raised" ELSE "image"

Rasterize(image, page) ==
    [image |-> image, page |-> page, pages |-> num_pages,
     outcome |-> load_page(page, num_pages)]

\* handle_document lines 1401-1530 (handle_file_url lines 1645-1720): the
\* page count, the located page, and the preview image of lines 1498-1503.
\* `cleared` tells whether the conversation before ended in a handler that
\* clears user_data.
LocatePreview(pages, page, cleared) ==
    /\ rpc = "idle"
    /\ documents < MaxRuns
    /\ documents' = documents + 1
    /\ num_pages' = pages
    /\ LET manual == IF cleared THEN {} ELSE page_data.manual IN
       IF page = 0
       THEN /\ page_data' = [manual |-> manual,
                             found |-> IF cleared THEN {} ELSE page_data.found]
            /\ rpc' = "manual"
            /\ UNCHANGED rasterizations
       ELSE /\ page_data' = [manual |-> manual, found |-> {page}]
            /\ rasterizations' = Append(rasterizations,
                   [image |-> "preview", page |-> page, pages |-> pages,
                    outcome |-> load_page(page, pages)])
            /\ rpc' = IF load_page(page, pages) = "raised" THEN "idle" ELSE "confirm"
    /\ UNCHANGED raster_page
    /\ UNCHANGED notRaster

\* lines 1535-1562: yes starts process_specification, no asks for a number
ConfirmPage(yes) ==
    /\ rpc = "confirm"
    /\ rpc' = IF yes THEN "process" ELSE "manual"
    /\ UNCHANGED <<num_pages, page_data, raster_page, rasterizations, documents>>
    /\ UNCHANGED notRaster

\* lines 1576-1584: manual_page_number = int(text)
TypePage(typed) ==
    /\ rpc = "manual"
    /\ page_data' = [page_data EXCEPT !.manual = {typed}]
    /\ rpc' = "process"
    /\ UNCHANGED <<num_pages, raster_page, rasterizations, documents>>
    /\ UNCHANGED notRaster

\* lines 1103-1124: the page number, the test of line 1119, the OCR image
RasterOcr ==
    /\ rpc = "process"
    /\ LET chosen == IF page_data.manual \notin {{}, {0}}
                     THEN page_data.manual ELSE page_data.found IN
       IF chosen = {}
       THEN /\ rpc' = "idle"                   \* None > len(...) raises
            /\ UNCHANGED <<raster_page, rasterizations>>
       ELSE LET page_number == CHOOSE p \in chosen : TRUE IN
            /\ raster_page' = page_number
            /\ IF page_number > num_pages
               THEN /\ rpc' = "idle"
                    /\ UNCHANGED rasterizations
               ELSE /\ rasterizations' =
                           Append(rasterizations, Rasterize("ocr", page_number))
                    /\ rpc' = "structure"
    /\ UNCHANGED <<num_pages, page_data, documents>>
    /\ UNCHANGED notRaster

\* lines 1146-1218: recognition and structuring succeed or end the run;
\* then the archive image of lines 1216-1218.
RasterArchive(reached) ==
    /\ rpc = "structure"
    /\ rasterizations' = IF reached
                         THEN Append(rasterizations, Rasterize("archive", raster_page))
                         ELSE rasterizations
    /\ rpc' = "idle"
    /\ UNCHANGED <<num_pages, page_data, raster_page, documents>>
    /\ UNCHANGED notRaster

NextRaster ==
    \/ \E n \in DocPages, p \in ReportedPages, c \in BOOLEAN : LocatePreview(n, p, c)
    \/ \E yes \in BOOLEAN : ConfirmPage(yes)
    \/ \E typed \in ReportedPages : TypePage(typed)
    \/ RasterOcr
    \/ \E reached \in BOOLEAN : RasterArchive(reached)

SpecRaster == Init /\ [][NextRaster]_vars

\* C32: no rasterization of a page (preview, OCR image, archive image) is
\* attempted with a page number greater than the page count of the document.
C32_PageWithinDocument ==
    \A i \in 1..Len(rasterizations) :
        rasterizations[i].page <= rasterizations[i].pages

(* =========================== a page without tables ====================== *)
NoTableMessage(log) == \E i \in DOMAIN log : log[i] = "no_table_message"

AfterOcr == {"structuring", "structured", "archive", "pending", "scheduled",
             "report", "prompt"}

\* C33: when the OCR service detects zero tables the run sends the no-table
\* message and stops: no structuring, no archive, no timeout, and the handler
\* returns without ending the conversation (no generic error outcome).
C33_NoTableStops ==
    [][NoTableMessage(stages') =>
          /\ \A i \in DOMAIN stages' : stages'[i] \notin AfterOcr
          /\ ~NoTableMessage(stages) =>
                 /\ xpc = "ocr" /\ xpc' = "idle"
                 /\ conversation' = conversation
                 /\ conversation' # "NONE"
                 /\ last_end' = last_end
                 /\ session_data' = session_data]_vars

C33_Witness ==
    /\ NoTableMessage(stages)
    /\ xpc = "idle"
    /\ conversation = "AWAITING_CONFIRMATION"

(* ====================== the uploaded file handle ======================== *)
\* C34: whenever page location ends after the document was uploaded to the
\* model provider, the uploaded file handle has been deleted.
C34_HandleDeletedAtEnd ==
    (ppc = "end" /\ uploaded_file # "none") => uploaded_file = "deleted"

(* ============ create_parquet_entry_yandex in concurrent calls ============ *)
(* finalize_yandex_entry runs in the event loop (handle_feedback) and in   *)
(* one thread per timeout_handler, each thread with an event loop of its   *)
(* own, so create_parquet_entry_yandex calls for different archives        *)
(* interleave at their storage calls.  Every storage call succeeds here.   *)
(* A row is named by the finalizer that appends it.                        *)
Finalizers == 1..MaxFinalizers

\* lines 1002-1059: a finalize call reaches create_parquet_entry_yandex and
\* builds its record
PartitionRecord(i) ==
    /\ zpc[i] = "idle"
    /\ zpc' = [zpc EXCEPT ![i] = "exists"]
    /\ UNCHANGED <<combined_df, partition>>
    /\ UNCHANGED notPartition

\* line 1064: yandex_storage.file_exists(parquet_path)
PartitionExists(i) ==
    /\ zpc[i] = "exists"
    /\ IF partition.exists
       THEN /\ zpc' = [zpc EXCEPT ![i] = "download"]
            /\ UNCHANGED combined_df
       ELSE /\ zpc' = [zpc EXCEPT ![i] = "upload"]
            /\ combined_df' = [combined_df EXCEPT ![i] = {i}]     \* line 1080
    /\ UNCHANGED partition
    /\ UNCHANGED notPartition

\* lines 1066-1074: download_file, read_parquet, concat with the new row
PartitionDownload(i) ==
    /\ zpc[i] = "download"
    /\ combined_df' = [combined_df EXCEPT ![i] = partition.rows \cup {i}]
    /\ zpc' = [zpc EXCEPT ![i] = "upload"]
    /\ UNCHANGED partition
    /\ UNCHANGED notPartition

\* lines 1083-1085: to_parquet and upload_file replace the day's file
PartitionUpload(i) ==
    /\ zpc[i] = "upload"
    /\ partition' = [exists |-> TRUE, rows |-> combined_df[i]]
    /\ zpc' = [zpc EXCEPT ![i] = "done"]
    /\ UNCHANGED combined_df
    /\ UNCHANGED notPartition

NextPartition ==
    \/ \E i \in Finalizers : PartitionRecord(i)
    \/ \E i \in Finalizers : PartitionExists(i)
    \/ \E i \in Finalizers : PartitionDownload(i)
    \/ \E i \in Finalizers : PartitionUpload(i)

SpecPartition == Init /\ [][NextPartition]_vars

\* C35: once two concurrent finalize calls for different archives have both
\* completed, the day's partition holds the rows of both.
C35_BothRowsKept ==
    \A i, j \in Finalizers :
        (i # j /\ zpc[i] = "done" /\ zpc[j] = "done") => {i, j} \subseteq partition.rows

(* ====================== the page that is processed ====================== *)
\* C36: when the user confirms the page located for the current document,
\* the page process_specification reads for rasterization and OCR is that
\* located page, whatever was typed in an earlier conversation.
C36_ConfirmedPageProcessed ==
    [][(conversation = "AWAITING_CONFIRMATION" /\ xpc = "read" /\ xpc' = "ocr")
           => proc_page_number' = session_data.found_page_number]_vars

(* ===================== model invocations of one ladder ================== *)
InvocationsOf(s) == Cardinality({i \in DOMAIN attemptLog : attemptLog[i].strategy = s})

\* C37: one call of run_gemini_with_fallback makes at most 2 * MAX_RETRIES
\* model invocations: at most MAX_RETRIES in the full-fidelity strategy, at
\* most MAX_RETRIES in the plain-text strategy, none in the degraded one.
C37_InvocationBound ==
    /\ Len(attemptLog) <= 2 * MAX_RETRIES
    /\ InvocationsOf(1) <= MAX_RETRIES
    /\ InvocationsOf(2) <= MAX_RETRIES
    /\ InvocationsOf(3) = 0
    /\ \A i \in DOMAIN attemptLog : attemptLog[i].strategy \in 1..3

C37_Witness ==
    /\ ladder_result = [status |-> "returned", strategy |-> 3]
    /\ InvocationsOf(1) = MAX_RETRIES
    /\ InvocationsOf(2) = MAX_RETRIES

(* ========== the response of page location in the two intake paths ======= *)
(* The same response text goes through lines 1479-1498 of handle_document  *)
(* and through lines 1675-1688 of handle_file_url.  The text is made of    *)
(* the tokens of the parser above, with "k" read as the key "page", and    *)
(* may stand between code fences, "j" being the language tag json.         *)
Wrappings == {"bare", "fenced", "fenced_json"}

Wrap(w, s) ==
    CASE w = "bare" -> s
      [] w = "fenced" -> Fence \o <<"\n">> \o s \o <<"\n">> \o Fence
      [] w = "fenced_json" -> Fence \o <<"j", "\n">> \o s \o <<"\n">> \o Fence

\* str.replace(p, ""): every occurrence of p, left to right, is removed
RECURSIVE RemoveAll(_, _)
RemoveAll(s, p) ==
    IF s = << >> THEN << >>
    ELSE IF StartsWith(s, p) THEN RemoveAll(Drop(s, Len(p)), p)
    ELSE <<Head(s)>> \o RemoveAll(Tail(s), p)

\* line 1676: response.text.replace("```json", "").replace("```", "").strip()
CleanedText(text) == StrStrip(RemoveAll(RemoveAll(text, Fence \o <<"j">>), Fence))

\* lines 1676-1677: json.loads of the cleaned text
UrlParse(text) ==
    LET s == CleanedText(text) IN
    IF Loads(s) THEN Parsed(s, "direct") ELSE DecodeError("direct")

\* line 1480: parse_gemini_json, which raises ValueError for an empty text
DocumentParse(text) ==
    IF text = << >> THEN DecodeError("empty") ELSE RelaxedJsonParse(text)

\* lines 1493-1503 (1683-1690): result.get("page", 0), the comparison with 0,
\* the stored page and the preview.  A list has no get, a page that is not a
\* number is stored and fails at page_number - 1.
Located(p) ==
    IF ~p.ok THEN [next |-> "END", found |-> "unset"]
    ELSE IF Head(p.value) # "{" THEN [next |-> "END", found |-> "unset"]
    ELSE IF At(p.value, 2) # "k" THEN [next |-> "AWAITING_MANUAL_PAGE", found |-> "unset"]
    ELSE IF At(p.value, 3) = "1" THEN [next |-> "AWAITING_CONFIRMATION", found |-> "number"]
    ELSE [next |-> "END", found |-> "object"]

AnswerArrives(w, lead, object, trail) ==
    /\ epc = "idle"
    /\ epc' = "arrived"
    /\ answer' = Wrap(w, lead \o object \o trail)
    /\ UNCHANGED <<by_document, by_url>>
    /\ UNCHANGED notIntake

DocumentLocates ==
    /\ epc = "arrived"
    /\ epc' = "document"
    /\ by_document' = Located(DocumentParse(answer))
    /\ UNCHANGED <<answer, by_url>>
    /\ UNCHANGED notIntake

UrlLocates ==
    /\ epc = "document"
    /\ epc' = "both"
    /\ by_url' = Located(UrlParse(answer))
    /\ UNCHANGED <<answer, by_document>>
    /\ UNCHANGED notIntake

NextIntake ==
    \/ \E w \in Wrappings, lead \in Noise, trail \in Noise, object \in Objects \cup {<< >>} :
          AnswerArrives(w, lead, object, trail)
    \/ DocumentLocates
    \/ UrlLocates

SpecIntake == Init /\ [][NextIntake]_vars

\* C38: for the same response the link intake and the file intake reach the
\* same next conversation state and record the same found page number.
C38_IntakePathsAgree ==
    epc = "both" => by_url = by_document

(* ===================== the artifacts of an archive path ================= *)
\* the artifacts an upload stored under the path of the run
StoredUnder(log) == {log[i].artifact : i \in {j \in DOMAIN log : log[j].ok}}

\* the content of meta.json under the path after the save
MetaRecordUnder(log) ==
    IF "meta.json" \in StoredUnder(log) THEN meta_data ELSE [feedback_status |-> "absent"]

\* C39: the metadata record is the last artifact save_to_yandex_initial
\* writes: when meta.json exists under the path, so do the page image, the
\* OCR text, corrected.json and both prompt copies; a non-null return value
\* implies that the record exists with feedback_status "pending".
C39_MetaWrittenLast ==
    [][LET log == save'.log
           stored == StoredUnder(log) IN
       /\ "meta.json" \in stored =>
              /\ "input.webp" \in stored \/ "input.png" \in stored
              /\ {"ocr_raw.html.gz", "corrected.json", "find_prompt.txt",
                  "extract_prompt.txt"} \subseteq stored
              /\ log[Len(log)].artifact = "meta.json"
       /\ (apc = "idle" /\ apc' # "idle" /\ save'.value # None) =>
              /\ "meta.json" \in stored
              /\ MetaRecordUnder(log).feedback_status = "pending"]_vars

C39_Witness ==
    /\ save.value # None
    /\ "input.png" \in StoredUnder(save.log)
    /\ "meta.json" \in StoredUnder(save.log)

(* ========================= YandexStorageClient ========================= *)
(* The seven operations of yandex_storage.py over a bucket of a few keys.  *)
(* `fault` tells whether the boto call of the operation raises; head and   *)
(* download of a key that is not in the bucket raise as well.              *)
Operations == {"upload_file", "upload_string", "upload_json", "upload_gzipped_string",
               "download_file", "file_exists", "list_files"}
Uploads == {"upload_file", "upload_string", "upload_json", "upload_gzipped_string"}
Keys == {"meta.json", "corrected.json"}

\* the value an operation returns for a failure: [] for list_files, else False
FailureValue(op) == IF op = "list_files" THEN {} ELSE FALSE

\* line 92: upload_json serializes and calls upload_string
Delegate(op) == IF op = "upload_json" THEN "upload_string" ELSE op

\* the boto method an operation calls (lines 53, 74, 106, 128, 142, 153)
BotoCall(op) ==
    CASE Delegate(op) = "upload_file" -> "upload_file"
      [] Delegate(op) \in {"upload_string", "upload_gzipped_string"} -> "put_object"
      [] op = "download_file" -> "download_file"
      [] op = "file_exists" -> "head_object"
      [] op = "list_files" -> "list_objects_v2"

\* variant: list_files lets the exception of the storage call through
StorageCaughtButList(op) == op # "list_files"

\* lines 63, 84, 117, 132, 144, 164: the except clause around the boto call
StorageCaught(op) == TRUE

\* variant: download_file calls the store without looking at the client
ClientCheckedButDownload(op) == op # "download_file"

\* lines 44, 69, 99, 123, 138, 149: if not self.client
ClientChecked(op) == TRUE

\* one operation on a client with (cfg) or without a boto client
Operate(op, cfg, key, fault, b) ==
    IF ~cfg /\ ClientChecked(Delegate(op))
    THEN [op |-> op, value |-> FailureValue(op), raised |-> FALSE, faulted |-> fault,
          bucket |-> b, calls |-> << >>]
    ELSE IF ~cfg \/ fault \/ (op \in {"download_file", "file_exists"} /\ key \notin b)
    THEN [op |-> op, value |-> FailureValue(op), raised |-> ~StorageCaught(Delegate(op)),
          faulted |-> fault, bucket |-> b, calls |-> <<BotoCall(op)>>]
    ELSE [op |-> op,
          value |-> IF op = "list_files" THEN b ELSE TRUE,
          raised |-> FALSE, faulted |-> fault,
          bucket |-> IF op \in Uploads THEN b \cup {key} ELSE b,
          calls |-> <<BotoCall(op)>>]

\* lines 16-38 and 171-174: the client is built from the environment
Reinitialize(cfg) ==
    /\ storage_client # cfg
    /\ storage_client' = cfg
    /\ UNCHANGED <<bucket, store_calls, op_result, operations_done>>
    /\ UNCHANGED notStorage

StorageOperation(op, key, fault) ==
    /\ operations_done < MaxOperations
    /\ LET r == Operate(op, storage_client, key, fault, bucket) IN
       /\ op_result' = [op |-> r.op, value |-> r.value, raised |-> r.raised,
                        faulted |-> r.faulted]
       /\ bucket' = r.bucket
       /\ store_calls' = store_calls \o r.calls
    /\ operations_done' = operations_done + 1
    /\ UNCHANGED storage_client
    /\ UNCHANGED notStorage

NextStorage ==
    \/ \E cfg \in BOOLEAN : Reinitialize(cfg)
    \/ \E op \in Operations, key \in Keys, fault \in BOOLEAN : StorageOperation(op, key, fault)

SpecStorage == Init /\ [][NextStorage]_vars

\* C40: every operation returns its failure value (False or an empty list)
\* instead of raising, when the client is unconfigured and when the storage
\* call fails; on an unconfigured client no operation touches the store.
C40_FailureValueNotRaise ==
    [][operations_done' # operations_done =>
          /\ ~op_result'.raised
          /\ (~storage_client \/ op_result'.faulted) =>
                 /\ op_result'.value = FailureValue(op_result'.op)
                 /\ bucket' = bucket
          /\ ~storage_client => store_calls' = store_calls]_vars

C40_Witness ==
    /\ ~storage_client
    /\ op_result.op = "list_files"
    /\ op_result.value = {}
    /\ bucket # {}
    /\ operations_done = MaxOperations

====
